---- MODULE Spec2Model ----
(***************************************************************************)
(* Taskify: registration, login, bearer-token identity resolution and      *)
(* per-user task CRUD (src/app/routers, src/app/core/auth.py,              *)
(* src/app/models).  Strings are sequences of one-character strings so     *)
(* that trimming, case folding and the validators' checks are computed.    *)
(***************************************************************************)
EXTENDS Integers, Sequences, FiniteSets, TLC

VARIABLES
    users,       \* rows of table "users"
    tasks,       \* rows of table "tasks"
    nextTaskId,  \* source of fresh task ids (uuid4)
    issued,      \* tokens handed out by login and held by clients
    now,         \* datetime.utcnow(), in minutes
    ticks,       \* number of clock advances so far
    last,        \* the most recent request and its response
    scen         \* position in the end-to-end scenario of the spec

vars == <<users, tasks, nextTaskId, issued, now, ticks, last, scen>>

(***************************************************************************)
(* Characters and Python's str operations                                  *)
(***************************************************************************)
UpperSeq ==
    <<"A", "B", "C", "D", "E", "F", "G", "H", "I", "J", "K", "L", "M",
      "N", "O", "P", "Q", "R", "S", "T", "U", "V", "W", "X", "Y", "Z">>

LowerSeq ==
    <<"a", "b", "c", "d", "e", "f", "g", "h", "i", "j", "k", "l", "m",
      "n", "o", "p", "q", "r", "s", "t", "u", "v", "w", "x", "y", "z">>

UpperChars == {UpperSeq[i] : i \in 1..Len(UpperSeq)}

LowerChars == {LowerSeq[i] : i \in 1..Len(LowerSeq)}

DigitChars == {"0", "1", "2", "3", "4", "5", "6", "7", "8", "9"}

Whitespace == {" ", "\t", "\n"}

\* [a-zA-Z0-9]
AlnumChars == UpperChars \cup LowerChars \cup DigitChars

\* \w of Python's re on str, restricted to ASCII input
WordChars == AlnumChars \cup {"_"}

ToLowerChar(c) ==
    IF c \in UpperChars
    THEN LowerSeq[CHOOSE i \in 1..Len(UpperSeq) : UpperSeq[i] = c]
    ELSE c

\* str.lower()
lower(s) == [i \in 1..Len(s) |-> ToLowerChar(s[i])]

RECURSIVE lstrip(_)
lstrip(s) ==
    IF s = <<>> THEN s
    ELSE IF Head(s) \in Whitespace THEN lstrip(Tail(s)) ELSE s

RECURSIVE rstrip(_)
rstrip(s) ==
    IF s = <<>> THEN s
    ELSE IF s[Len(s)] \in Whitespace THEN rstrip(SubSeq(s, 1, Len(s) - 1)) ELSE s

\* str.strip()
strip(s) == rstrip(lstrip(s))

\* set(s)
CharSet(s) == {s[i] : i \in 1..Len(s)}

\* sub in s
Contains(s, sub) ==
    \E i \in 1..(Len(s) - Len(sub) + 1) : SubSeq(s, i, i + Len(sub) - 1) = sub

\* s.replace(c, "") for a single character c
RemoveChar(s, c) == SelectSeq(s, LAMBDA x : x # c)

\* All sequences over alphabet A of length at most n
RECURSIVE SeqsUpTo(_, _)
SeqsUpTo(A, n) ==
    IF n = 0 THEN {<<>>}
    ELSE LET shorter == SeqsUpTo(A, n - 1)
         IN  shorter \cup {Append(s, c) : s \in {t \in shorter : Len(t) = n - 1}, c \in A}

(***************************************************************************)
(* A validator returns its value or raises ValueError(error)               *)
(***************************************************************************)
Ok(v) == [ok |-> TRUE, value |-> v, error |-> ""]

Err(msg) == [ok |-> FALSE, value |-> <<>>, error |-> msg]

(***************************************************************************)
(* Username validators (schemas.py)                                        *)
(***************************************************************************)
MinUsernameLen == 3

MaxUsernameLen == 50

reserved_usernames ==
    { <<"a", "d", "m", "i", "n">>,
      <<"a", "d", "m", "i", "n", "i", "s", "t", "r", "a", "t", "o", "r">>,
      <<"r", "o", "o", "t">>,
      <<"u", "s", "e", "r">>,
      <<"t", "e", "s", "t">>,
      <<"d", "e", "m", "o">>,
      <<"g", "u", "e", "s", "t">>,
      <<"a", "p", "i">>,
      <<"w", "w", "w">>,
      <<"m", "a", "i", "l">>,
      <<"e", "m", "a", "i", "l">>,
      <<"s", "u", "p", "p", "o", "r", "t">>,
      <<"h", "e", "l", "p">>,
      <<"i", "n", "f", "o">>,
      <<"c", "o", "n", "t", "a", "c", "t">>,
      <<"n", "u", "l", "l">>,
      <<"u", "n", "d", "e", "f", "i", "n", "e", "d">>,
      <<"n", "o", "n", "e">>,
      <<"s", "y", "s", "t", "e", "m">>,
      <<"o", "p", "e", "r", "a", "t", "o", "r">> }

\* re.match(r"^[a-zA-Z0-9_-]+$", v)
UsernameCharsetOk(v) ==
    /\ Len(v) >= 1
    /\ \A i \in 1..Len(v) : v[i] \in AlnumChars \cup {"_", "-"}

\* The checks UserBase.validate_username and UserRegister.validate_username
\* share, applied to the stripped value: the first failing check's message,
\* or "" when all pass.
UsernameCommonError(v) ==
    IF Len(v) = 0 THEN "Username cannot be empty"
    ELSE IF Len(v) < MinUsernameLen THEN "Username must be at least 3 characters long"
    ELSE IF Len(v) > MaxUsernameLen THEN "Username cannot exceed 50 characters"
    ELSE IF ~UsernameCharsetOk(v)
         THEN "Username can only contain letters, numbers, underscores, and hyphens"
    ELSE IF v[1] \notin AlnumChars THEN "Username must start with a letter or number"
    ELSE IF v[Len(v)] \in {"_", "-"} THEN "Username cannot end with underscore or hyphen"
    ELSE IF lower(v) \in reserved_usernames THEN "Username is reserved and cannot be used"
    ELSE ""

\* UserRegister.validate_username
UserRegister_validate_username(raw) ==
    IF raw = <<>> THEN Err("Username is required and must be a string")
    ELSE LET v == strip(raw)
             e == UsernameCommonError(v)
         IN  IF e # "" THEN Err(e) ELSE Ok(lower(v))

\* UserBase.validate_username: as above, plus the repetition check
UserBase_validate_username(raw) ==
    IF raw = <<>> THEN Err("Username is required and must be a string")
    ELSE LET v == strip(raw)
             e == UsernameCommonError(v)
         IN  IF e # "" THEN Err(e)
             ELSE IF Cardinality(CharSet(v)) < 2 /\ Len(v) > 3
                  THEN Err("Username cannot be repetitive characters")
             ELSE Ok(lower(v))

(***************************************************************************)
(* Email and password validators of UserRegister (schemas.py)              *)
(***************************************************************************)
MaxEmailLen == 100

MinPasswordLen == 8

MaxPasswordLen == 128

MinPasswordDistinct == 4

\* [a-zA-Z0-9._%+-]
EmailLocalChars == AlnumChars \cup {".", "_", "%", "+", "-"}

\* [a-zA-Z0-9.-]
EmailDomainChars == AlnumChars \cup {".", "-"}

\* Positions of character c in s
Positions(s, c) == {i \in 1..Len(s) : s[i] = c}

Max(S) == CHOOSE x \in S : \A y \in S : y <= x

Min(S) == CHOOSE x \in S : \A y \in S : x <= y

\* re.match(r"^[a-zA-Z0-9._%+-]+@[a-zA-Z0-9.-]+\.[a-zA-Z]{2,}$", v): neither
\* character class holds "@", so v has exactly one "@"; the top-level domain
\* holds letters only, so the "\." is the last dot after the "@".
email_pattern(v) ==
    /\ Cardinality(Positions(v, "@")) = 1
    /\ LET at     == CHOOSE i \in Positions(v, "@") : TRUE
           local  == SubSeq(v, 1, at - 1)
           rest   == SubSeq(v, at + 1, Len(v))
           dots   == Positions(rest, ".")
       IN  /\ Len(local) >= 1
           /\ \A i \in 1..Len(local) : local[i] \in EmailLocalChars
           /\ dots # {}
           /\ LET k      == Max(dots)
                  domain == SubSeq(rest, 1, k - 1)
                  tld    == SubSeq(rest, k + 1, Len(rest))
              IN  /\ Len(domain) >= 1
                  /\ \A i \in 1..Len(domain) : domain[i] \in EmailDomainChars
                  /\ Len(tld) >= 2
                  /\ \A i \in 1..Len(tld) : tld[i] \in UpperChars \cup LowerChars

\* UserRegister.validate_email
UserRegister_validate_email(raw) ==
    IF raw = <<>> THEN Err("Email is required and must be a string")
    ELSE LET v == lower(strip(raw))
         IN  IF Len(v) = 0 THEN Err("Email cannot be empty")
             ELSE IF Len(v) > MaxEmailLen THEN Err("Email cannot exceed 100 characters")
             ELSE IF ~email_pattern(v) THEN Err("Invalid email format")
             ELSE IF Contains(v, <<".", ".">>) THEN Err("Email cannot contain consecutive dots")
             ELSE IF v[1] \in {".", "@"} THEN Err("Email cannot start with dot or @ symbol")
             ELSE IF v[Len(v)] \in {".", "@"} THEN Err("Email cannot end with dot or @ symbol")
             ELSE Ok(v)

weak_passwords ==
    { <<"p", "a", "s", "s", "w", "o", "r", "d">>,
      <<"p", "a", "s", "s", "w", "o", "r", "d", "1", "2", "3">>,
      <<"1", "2", "3", "4", "5", "6", "7", "8">>,
      <<"q", "w", "e", "r", "t", "y", "1", "2", "3">>,
      <<"a", "b", "c", "1", "2", "3", "4", "5", "6">>,
      <<"p", "a", "s", "s", "w", "o", "r", "d", "1">>,
      <<"a", "d", "m", "i", "n", "1", "2", "3">>,
      <<"u", "s", "e", "r", "1", "2", "3">>,
      <<"t", "e", "s", "t", "1", "2", "3">>,
      <<"d", "e", "m", "o", "1", "2", "3">> }

\* [!@#$%^&*(),.?":{}|<>]
SpecialChars ==
    {"!", "@", "#", "$", "%", "^", "&", "*", "(", ")", ",", ".", "?", "\"", ":",
     "{", "}", "|", "<", ">"}

\* UserRegister.validate_password
UserRegister_validate_password(v) ==
    IF v = <<>> THEN Err("Password is required and must be a string")
    ELSE IF Len(v) < MinPasswordLen THEN Err("Password must be at least 8 characters long")
    ELSE IF Len(v) > MaxPasswordLen THEN Err("Password cannot exceed 128 characters")
    ELSE IF CharSet(v) \cap UpperChars = {}
         THEN Err("Password must contain at least one uppercase letter")
    ELSE IF CharSet(v) \cap LowerChars = {}
         THEN Err("Password must contain at least one lowercase letter")
    ELSE IF CharSet(v) \cap DigitChars = {}
         THEN Err("Password must contain at least one number")
    ELSE IF CharSet(v) \cap SpecialChars = {}
         THEN Err("Password must contain at least one special character")
    ELSE IF lower(v) \in weak_passwords THEN Err("Password is too common and weak")
    ELSE IF Cardinality(CharSet(v)) < MinPasswordDistinct
         THEN Err("Password cannot be too repetitive")
    ELSE Ok(v)

\* sequences of UserCreate.validate_password
sequences ==
    { <<"1", "2", "3", "4">>, <<"a", "b", "c", "d">>, <<"q", "w", "e", "r">>,
      <<"a", "s", "d", "f">>, <<"z", "x", "c", "v">> }

\* UserCreate.validate_password: the checks of UserRegister.validate_password
\* and then the sequential patterns.  No route takes a UserCreate body.
UserCreate_validate_password(v) ==
    LET r == UserRegister_validate_password(v)
    IN  IF ~r.ok THEN r
        ELSE IF \E seq \in sequences : Contains(lower(v), seq)
             THEN Err("Password cannot contain common sequential patterns")
        ELSE Ok(v)

\* UserRegister.validate_confirm_password
UserRegister_validate_confirm_password(v) ==
    IF v = <<>> THEN Err("Password confirmation is required") ELSE Ok(v)

\* Pydantic's validation of a UserRegister body: the field validators run on
\* every field; validate_passwords_match (mode="after") runs only when all of
\* them passed.  errors is the set of fields in error ("body" for the model
\* validator); data holds the validated values.
UserRegister_validate(body) ==
    LET u == UserRegister_validate_username(body.username)
        e == UserRegister_validate_email(body.email)
        p == UserRegister_validate_password(body.password)
        c == UserRegister_validate_confirm_password(body.confirm_password)
        fieldErrors == {f \in {"username", "email", "password", "confirm_password"} :
                          \/ f = "username" /\ ~u.ok
                          \/ f = "email" /\ ~e.ok
                          \/ f = "password" /\ ~p.ok
                          \/ f = "confirm_password" /\ ~c.ok}
        data == [username |-> u.value, email |-> e.value,
                 password |-> p.value, confirm_password |-> c.value]
    IN  IF fieldErrors # {} THEN [ok |-> FALSE, errors |-> fieldErrors, data |-> data]
        ELSE IF p.value # c.value THEN [ok |-> FALSE, errors |-> {"body"}, data |-> data]
        ELSE [ok |-> TRUE, errors |-> {}, data |-> data]

(***************************************************************************)
(* Credential codec (core/auth.py)                                         *)
(***************************************************************************)
\* Python's None, and a key absent from a dict or JSON object
None == <<"<None>">>

Missing == <<"<Missing>">>

SECRET_KEY == "SECRET_KEY"

ACCESS_TOKEN_EXPIRE_MINUTES == 30

\* bcrypt reads at most the first 72 bytes of a password
BcryptMaxBytes == 72

BcryptInput(password) == SubSeq(password, 1, Min({Len(password), BcryptMaxBytes}))

\* pwd_context.hash(password), with the salt the call drew
get_password_hash(password, salt) ==
    [salt |-> salt, digest |-> <<"bcrypt", salt, BcryptInput(password)>>]

\* pwd_context.verify(plain_password, hashed_password)
verify_password(plain_password, hashed_password) ==
    hashed_password.digest = <<"bcrypt", hashed_password.salt, BcryptInput(plain_password)>>

\* HMAC of the claims under a key: only the holder of the key can compute it
Sign(claims, key) == <<key, claims>>

\* timedelta or None
NoDelta == [given |-> FALSE, minutes |-> 0]

Delta(m) == [given |-> TRUE, minutes |-> m]

\* create_access_token(data, expires_delta) called at time t.  "if
\* expires_delta:" is false for None and for timedelta(0).
create_access_token(data, expires_delta, t) ==
    LET expire == IF expires_delta.given /\ expires_delta.minutes # 0
                  THEN t + expires_delta.minutes
                  ELSE t + ACCESS_TOKEN_EXPIRE_MINUTES
        to_encode == [sub |-> data.sub, exp |-> expire]
    IN  [claims |-> to_encode, sig |-> Sign(to_encode, SECRET_KEY)]

\* Mutant: the signature is not checked.
jwt_decode_NoSignature(token, t) ==
    IF token.claims.exp < t THEN [ok |-> FALSE, payload |-> token.claims]
    ELSE [ok |-> TRUE, payload |-> token.claims]

\* jwt.decode(token, SECRET_KEY, algorithms=[ALGORITHM]) at time t: JWTError
\* on a signature that is not the key's over the claims, or on exp < now.
jwt_decode(token, t) ==
    IF token.sig # Sign(token.claims, SECRET_KEY) THEN [ok |-> FALSE, payload |-> token.claims]
    ELSE IF token.claims.exp < t THEN [ok |-> FALSE, payload |-> token.claims]
    ELSE [ok |-> TRUE, payload |-> token.claims]

\* verify_token(token, credentials_exception) at time t: the subject, or the
\* credentials exception raised
verify_token(token, t) ==
    LET d == jwt_decode(token, t)
    IN  IF ~d.ok THEN [ok |-> FALSE, username |-> None]
        ELSE IF d.payload.sub = None THEN [ok |-> FALSE, username |-> None]
        ELSE [ok |-> TRUE, username |-> d.payload.sub]

(***************************************************************************)
(* Task payload validators (schemas.py)                                    *)
(***************************************************************************)
MinTitleLen == 3

MaxTitleLen == 200

MaxDescriptionLen == 1000

IsStr(v) == v # None /\ v # Missing

\* value.lower() in ["null", "none", "undefined"]
string_nulls ==
    { <<"n", "u", "l", "l">>, <<"n", "o", "n", "e">>,
      <<"u", "n", "d", "e", "f", "i", "n", "e", "d">> }

\* re.match(r"^[^\w\s]+$", v)
OnlySpecialChars(v) ==
    /\ Len(v) >= 1
    /\ \A i \in 1..Len(v) : v[i] \notin WordChars \cup Whitespace

\* The checks of validate_title on a str value, shared by TaskCreate and
\* TaskUpdate
TitleChecks(raw) ==
    LET v == strip(raw)
    IN  IF Len(v) = 0 THEN Err("Title cannot be empty or only whitespace")
        ELSE IF Len(v) < MinTitleLen THEN Err("Title must be at least 3 characters long")
        ELSE IF Len(v) > MaxTitleLen THEN Err("Title cannot exceed 200 characters")
        ELSE IF OnlySpecialChars(v) THEN Err("Title cannot contain only special characters")
        ELSE IF lower(v) \in string_nulls \cup {<<>>} THEN Err("Title cannot be a reserved word")
        ELSE IF Cardinality(CharSet(RemoveChar(v, " "))) < 2 /\ Len(v) > 5
             THEN Err("Title cannot be repetitive characters")
        ELSE Ok(v)

\* TaskCreate.validate_title
TaskCreate_validate_title(v) ==
    IF v = <<>> THEN Err("Title is required and must be a string") ELSE TitleChecks(v)

\* TaskCreate.validate_description
TaskCreate_validate_description(raw) ==
    IF raw = None THEN Ok(None)
    ELSE LET v == strip(raw)
         IN  IF Len(v) = 0 THEN Ok(None)
             ELSE IF Len(v) > MaxDescriptionLen
                  THEN Err("Description cannot exceed 1000 characters")
             ELSE IF OnlySpecialChars(v)
                  THEN Err("Description cannot contain only special characters")
             ELSE Ok(v)

\* The loop of validate_input_data over one value of a TaskCreate body
TaskCreate_preprocess(value) ==
    IF ~IsStr(value) THEN value
    ELSE IF lower(value) \in string_nulls THEN None
    ELSE strip(value)

\* Mutant: validate_input_data does not require the title.
TaskCreate_validate_NoRequired(body) ==
    LET title == TaskCreate_preprocess(body.title)
        description == TaskCreate_preprocess(body.description)
        t == IF IsStr(title) THEN TaskCreate_validate_title(title) ELSE Ok(None)
        d == IF IsStr(description) THEN TaskCreate_validate_description(description)
             ELSE Ok(None)
    IN  [ok |-> t.ok /\ d.ok,
         errors |-> {f \in {"title", "description"} :
                       \/ f = "title" /\ ~t.ok
                       \/ f = "description" /\ ~d.ok},
         data |-> [title |-> t.value, description |-> d.value]]

\* Pydantic's validation of a TaskCreate body [title, description]:
\* validate_input_data (mode="before"), then the field validators
TaskCreate_validate(body) ==
    LET title == TaskCreate_preprocess(body.title)
        description == TaskCreate_preprocess(body.description)
    IN  IF ~IsStr(title)
        THEN [ok |-> FALSE, errors |-> {"body"}, data |-> [title |-> None, description |-> None]]
        ELSE LET t == TaskCreate_validate_title(title)
                 d == IF description = Missing THEN Ok(None)
                      ELSE TaskCreate_validate_description(description)
                 errs == {f \in {"title", "description"} :
                            \/ f = "title" /\ ~t.ok
                            \/ f = "description" /\ ~d.ok}
             IN  [ok |-> errs = {}, errors |-> errs,
                  data |-> [title |-> t.value, description |-> d.value]]

\* TaskUpdate.validate_title
TaskUpdate_validate_title(v) ==
    IF v = None THEN Ok(None) ELSE TitleChecks(v)

\* TaskUpdate.validate_description
TaskUpdate_validate_description(raw) ==
    IF raw = None THEN Ok(None)
    ELSE LET v == strip(raw)
         IN  IF Len(v) = 0 THEN Ok(None)
             ELSE IF Len(v) > MaxDescriptionLen
                  THEN Err("Description cannot exceed 1000 characters")
             ELSE IF OnlySpecialChars(v)
                  THEN Err("Description cannot contain only special characters")
             ELSE IF lower(v) \in string_nulls
                  THEN Err("Description cannot be a reserved word")
             ELSE Ok(v)

done == <<"d", "o", "n", "e">>

pending == <<"p", "e", "n", "d", "i", "n", "g">>

\* valid_states of TaskUpdate.validate_state
done_spellings ==
    { done, <<"c", "o", "m", "p", "l", "e", "t", "e", "d">>,
      <<"f", "i", "n", "i", "s", "h", "e", "d">>,
      <<"c", "o", "m", "p", "l", "e", "t", "e">>, <<"t", "r", "u", "e">>, <<"1">> }

pending_spellings ==
    { pending, <<"t", "o", "d", "o">>,
      <<"i", "n", "c", "o", "m", "p", "l", "e", "t", "e">>,
      <<"o", "p", "e", "n">>, <<"f", "a", "l", "s", "e">>, <<"0">> }

\* Mutant: the value is lower-cased but not trimmed.
TaskUpdate_validate_state_NoStrip(raw) ==
    IF raw = None THEN Ok(None)
    ELSE LET v == lower(raw)
         IN  IF v = <<>> THEN Err("State cannot be empty")
             ELSE IF v \in done_spellings THEN Ok(done)
             ELSE IF v \in pending_spellings THEN Ok(pending)
             ELSE Err("State must be one of: done, pending")

\* TaskUpdate.validate_state
TaskUpdate_validate_state(raw) ==
    IF raw = None THEN Ok(None)
    ELSE LET v == lower(strip(raw))
         IN  IF v = <<>> THEN Err("State cannot be empty")
             ELSE IF v \in done_spellings THEN Ok(done)
             ELSE IF v \in pending_spellings THEN Ok(pending)
             ELSE Err("State must be one of: done, pending")

\* Mutant: only the lowercase spellings are turned into None.
TaskUpdate_preprocess_CaseSensitive(value) ==
    IF ~IsStr(value) THEN value
    ELSE IF value \in string_nulls THEN None
    ELSE value

\* The loop of validate_fields over one value of a TaskUpdate body
TaskUpdate_preprocess(value) ==
    IF ~IsStr(value) THEN value
    ELSE IF lower(value) \in string_nulls THEN None
    ELSE value

\* Pydantic's validation of a TaskUpdate body [title, description, state,
\* extra]: validate_fields (mode="before"), the field validators on the keys
\* present, then validate_at_least_one_field (mode="after").  extra tells
\* whether the body holds a key other than the three.
TaskUpdate_validate(body) ==
    LET title == TaskUpdate_preprocess(body.title)
        description == TaskUpdate_preprocess(body.description)
        state == TaskUpdate_preprocess(body.state)
        given == {v \in {title, description, state} : v # Missing}
        noData == [title |-> None, description |-> None, state |-> None]
    IN  IF body.extra THEN [ok |-> FALSE, errors |-> {"body"}, data |-> noData]
        ELSE IF {body.title, body.description, body.state} = {Missing}
             THEN [ok |-> FALSE, errors |-> {"body"}, data |-> noData]
        ELSE IF given \subseteq {None} THEN [ok |-> FALSE, errors |-> {"body"}, data |-> noData]
        ELSE LET t == IF title = Missing THEN Ok(None) ELSE TaskUpdate_validate_title(title)
                 d == IF description = Missing THEN Ok(None)
                      ELSE TaskUpdate_validate_description(description)
                 s == IF state = Missing THEN Ok(None) ELSE TaskUpdate_validate_state(state)
                 errs == {f \in {"title", "description", "state"} :
                            \/ f = "title" /\ ~t.ok
                            \/ f = "description" /\ ~d.ok
                            \/ f = "state" /\ ~s.ok}
                 data == [title |-> t.value, description |-> d.value, state |-> s.value]
             IN  IF errs # {} THEN [ok |-> FALSE, errors |-> errs, data |-> data]
                 ELSE IF {t.value, d.value, s.value} = {None}
                      THEN [ok |-> FALSE, errors |-> {"body"}, data |-> data]
                 ELSE [ok |-> TRUE, errors |-> {}, data |-> data]

(***************************************************************************)
(* Store rows, responses and recorder events                               *)
(***************************************************************************)
\* Request(..) -> Response: status code, detail message and body
Response(status, detail, body) == [status |-> status, detail |-> detail, body |-> body]

NoBody == [kind |-> "none"]

\* The request carries no Authorization header
NoToken == [absent |-> TRUE]

NoUser == [id |-> 0]

\* Columns of table "tasks" (models.Task) and fields of schemas.TaskUpdate
TaskModelFields ==
    {"id", "title", "description", "state", "created_at", "updated_at", "user_id", "owner"}

TaskUpdateFields == {"title", "description", "state"}

\* schemas.Task as serialized: state leaves as "done" / "pending"
TaskView(t) ==
    [kind |-> "task", id |-> t.id, title |-> t.title, description |-> t.description,
     state |-> IF t.state THEN done ELSE pending,
     created_at |-> t.created_at, updated_at |-> t.updated_at, user_id |-> t.user_id]

\* The user as returned by /auth/register and /auth/me (response_model
\* UserSimple)
UserView(u) == [kind |-> "user", id |-> u.id, username |-> u.username, email |-> u.email]

\* SecurityLogger.log_registration / log_login_attempt
SecurityEvent(action, username, success, reason) ==
    [logger |-> "security", action |-> action, username |-> username,
     success |-> success, failure_reason |-> reason]

\* AuditLogger.log_user_action
AuditEvent(action, user_id, resource_id) ==
    [logger |-> "audit", action |-> action, user_id |-> user_id, resource_id |-> resource_id]

\* Where the store raises during a request: nowhere, in the user lookup of
\* get_current_user / authenticate_user, in the handler's own first query,
\* or in db.commit()
Faults == {"none", "lookup", "query", "commit"}

\* The recorder raises at its first call of the request (a logging filter
\* or handler that raises); the calls after it go through
RecorderFault == "record"

RecorderErrorName == "Internal error: OSError"

(***************************************************************************)
(* Identity resolver (core/auth.py)                                        *)
(***************************************************************************)
CredentialsException == Response(401, "Could not validate credentials", NoBody)

\* Mutant: the subject of the token is not used in the lookup.
get_current_user_AnyUser(token, fault, U, t) ==
    IF token = NoToken
    THEN [ok |-> FALSE, user |-> NoUser, resp |-> Response(401, "Not authenticated", NoBody)]
    ELSE LET v == verify_token(token, t)
         IN  IF ~v.ok \/ fault = "lookup" \/ U = {}
             THEN [ok |-> FALSE, user |-> NoUser, resp |-> CredentialsException]
             ELSE [ok |-> TRUE, user |-> CHOOSE u \in U : \A w \in U : u.id <= w.id,
                   resp |-> Response(200, "", NoBody)]

\* oauth2_scheme, then get_current_user(token, db) at time t on user table U.
\* "raise credentials_exception" inside the try is caught by "except
\* Exception" and raised again, like every store error.
get_current_user(token, fault, U, t) ==
    IF token = NoToken
    THEN [ok |-> FALSE, user |-> NoUser, resp |-> Response(401, "Not authenticated", NoBody)]
    ELSE LET v == verify_token(token, t)
             rows == {u \in U : u.username = v.username}
         IN  IF ~v.ok
             THEN [ok |-> FALSE, user |-> NoUser, resp |-> CredentialsException]
             ELSE IF fault = "lookup"
             THEN [ok |-> FALSE, user |-> NoUser, resp |-> CredentialsException]
             ELSE IF Cardinality(rows) # 1
             THEN [ok |-> FALSE, user |-> NoUser, resp |-> CredentialsException]
             ELSE [ok |-> TRUE, user |-> CHOOSE u \in rows : TRUE,
                   resp |-> Response(200, "", NoBody)]

(***************************************************************************)
(* Task handlers (routers/tasks.py), after authentication and validation   *)
(***************************************************************************)
\* Mutant: the query filters on the task id alone.
OwnTask_AnyOwner(T, current_user, task_id) ==
    {x \in T : x.id = task_id}

\* select(Task).where(Task.id == task_id, Task.user_id == current_user.id)
OwnTask(T, current_user, task_id) ==
    {x \in T : x.id = task_id /\ x.user_id = current_user.id}

\* Mutant: the row is stored without its user_id.
create_task_NoOwner(T, current_user, data, fault, id, t) ==
    LET db_task == [id |-> id, title |-> data.title, description |-> data.description,
                    state |-> FALSE, created_at |-> t, updated_at |-> t,
                    user_id |-> NoUser.id]
    IN  IF fault = "commit"
        THEN [resp |-> Response(500, "Error creating task", NoBody), tasks |-> T,
              events |-> <<>>]
        ELSE [resp |-> Response(201, "", TaskView(db_task)), tasks |-> T \cup {db_task},
              events |-> <<AuditEvent("task_created", current_user.id, id)>>]

\* create_task for the validated body data, by current_user, at time t; id is
\* the uuid4 drawn for the row
create_task(T, current_user, data, fault, id, t) ==
    LET db_task == [id |-> id, title |-> data.title, description |-> data.description,
                    state |-> FALSE, created_at |-> t, updated_at |-> t,
                    user_id |-> current_user.id]
    IN  IF fault = "commit"
        THEN [resp |-> Response(500, "Error creating task", NoBody), tasks |-> T,
              events |-> <<>>]
        ELSE IF fault = RecorderFault
        THEN [resp |-> Response(500, "Error creating task", NoBody),
              tasks |-> T \cup {db_task}, events |-> <<>>]
        ELSE [resp |-> Response(201, "", TaskView(db_task)), tasks |-> T \cup {db_task},
              events |-> <<AuditEvent("task_created", current_user.id, id)>>]

\* The rows, no two of them created at the same time, from the newest to the
\* oldest
NewestFirst(rows) ==
    LET newest == Max({r.created_at : r \in rows})
        times == SelectSeq([i \in 1..(newest + 1) |-> newest + 1 - i],
                           LAMBDA t : \E r \in rows : r.created_at = t)
    IN  [i \in DOMAIN times |-> CHOOSE r \in rows : r.created_at = times[i]]

\* The rows "ORDER BY created_at DESC" may return: every order of the rows
\* that is non-increasing in created_at (rows created at the same time come
\* in any order)
OrderByCreatedDesc(rows) ==
    LET n == Cardinality(rows)
    IN  IF rows # {} /\ Cardinality({r.created_at : r \in rows}) = n
        THEN {NewestFirst(rows)}
        ELSE {s \in [1..n -> rows] :
                 /\ \A i, j \in 1..n : i # j => s[i] # s[j]
                 /\ \A i, j \in 1..n : i < j => s[i].created_at >= s[j].created_at}

DefaultSkip == 0

DefaultLimit == 100

MaxLimit == 1000

\* .offset(skip).limit(limit) on an ordered result
OffsetLimit(s, skip, limit) ==
    SubSeq(s, skip + 1, Min({Len(s), skip + limit}))

\* Mutant: the query does not filter by owner.
read_tasks_AllUsers(T, current_user, skip, limit, fault) ==
    LET lim == IF limit > MaxLimit THEN MaxLimit ELSE limit
    IN  IF fault = "query"
        THEN {Response(500, "Error retrieving tasks", NoBody)}
        ELSE {Response(200, "",
                       [kind |-> "tasks",
                        items |-> [i \in DOMAIN OffsetLimit(s, skip, lim) |->
                                      TaskView(OffsetLimit(s, skip, lim)[i])]]) :
                 s \in OrderByCreatedDesc(T)}

\* Mutant: the limit is not capped.
read_tasks_NoCap(T, current_user, skip, limit, fault) ==
    LET rows == {x \in T : x.user_id = current_user.id}
    IN  IF fault = "query" \/ skip < 0 \/ limit < 0
        THEN {Response(500, "Error retrieving tasks", NoBody)}
        ELSE {LET page == OffsetLimit(s, skip, limit)
              IN  Response(200, "",
                           [kind |-> "tasks",
                            items |-> [i \in DOMAIN page |-> TaskView(page[i])]]) :
                 s \in OrderByCreatedDesc(rows)}

\* read_tasks: the responses the query can produce.  skip and limit are any
\* integers; the store refuses a negative OFFSET or LIMIT, which is answered
\* like every store error.
read_tasks(T, current_user, skip, limit, fault) ==
    LET lim == IF limit > MaxLimit THEN MaxLimit ELSE limit
        rows == {x \in T : x.user_id = current_user.id}
    IN  IF fault = "query" \/ skip < 0 \/ lim < 0
        THEN {Response(500, "Error retrieving tasks", NoBody)}
        ELSE {LET page == OffsetLimit(s, skip, lim)
              IN  Response(200, "",
                           [kind |-> "tasks",
                            items |-> [i \in DOMAIN page |-> TaskView(page[i])]]) :
                 s \in OrderByCreatedDesc(rows)}

\* read_task
read_task(T, current_user, task_id, fault) ==
    LET rows == OwnTask(T, current_user, task_id)
    IN  IF fault = "query" THEN Response(500, "Error retrieving task", NoBody)
        ELSE IF rows = {} THEN Response(404, "Task not found", NoBody)
        ELSE IF Cardinality(rows) > 1 THEN Response(500, "Error retrieving task", NoBody)
        ELSE Response(200, "", TaskView(CHOOSE x \in rows : TRUE))

\* update_task for the validated body data.  Reading task.is_done raises
\* AttributeError (models.Task has no such column), as reading
\* task_update.is_done would (schemas.TaskUpdate has no such field); "except
\* Exception" turns it into a 500 and nothing is committed.
update_task(T, current_user, task_id, data, fault) ==
    LET rows == OwnTask(T, current_user, task_id)
        failed == [resp |-> Response(500, "Error updating task", NoBody), tasks |-> T,
                   events |-> <<>>]
    IN  IF fault = "query" THEN failed
        ELSE IF rows = {}
        THEN [resp |-> Response(404, "Task not found", NoBody), tasks |-> T,
              events |-> <<>>]
        ELSE IF Cardinality(rows) > 1 THEN failed
        ELSE IF "is_done" \notin TaskModelFields THEN failed
        ELSE IF "is_done" \notin TaskUpdateFields THEN failed
        ELSE IF fault = "commit" THEN failed
        ELSE LET task == CHOOSE x \in rows : TRUE
                 updated == [task EXCEPT
                               !.title = IF data.title # None THEN data.title ELSE @,
                               !.description = IF data.description # None
                                               THEN data.description ELSE @]
             IN  [resp |-> Response(200, "", TaskView(updated)),
                  tasks |-> (T \ {task}) \cup {updated},
                  events |-> <<AuditEvent("task_updated", current_user.id, task_id)>>]

\* delete_task.  Reading task.is_done for the audit record raises
\* AttributeError before db.delete(task).
delete_task(T, current_user, task_id, fault) ==
    LET rows == OwnTask(T, current_user, task_id)
        failed == [resp |-> Response(500, "Error deleting task", NoBody), tasks |-> T,
                   events |-> <<>>]
    IN  IF fault = "query" THEN failed
        ELSE IF rows = {}
        THEN [resp |-> Response(404, "Task not found", NoBody), tasks |-> T,
              events |-> <<>>]
        ELSE IF Cardinality(rows) > 1 THEN failed
        ELSE IF "is_done" \notin TaskModelFields THEN failed
        ELSE IF fault = "commit" THEN failed
        ELSE [resp |-> Response(200, "Task deleted successfully", NoBody),
              tasks |-> T \ rows,
              events |-> <<AuditEvent("task_deleted", current_user.id, task_id)>>]

(***************************************************************************)
(* Registration and login (routers/auth.py, core/auth.py)                  *)
(***************************************************************************)
\* type(e).__name__ of the exception the store raises
StoreErrorName == "Internal error: SQLAlchemyError"

\* Mutant: the email is looked up before the username.
register_user_EmailFirst(U, data, fault, salt) ==
    LET existing_user == {u \in U : u.username = data.username}
        existing_email == {u \in U : u.email = data.email}
        db_user == [id |-> Cardinality(U) + 1, username |-> data.username,
                    email |-> data.email,
                    hashed_password |-> get_password_hash(data.password, salt)]
    IN  IF existing_email # {}
        THEN [resp |-> Response(400, "Email already registered", NoBody), users |-> U,
              hashed |-> FALSE, events |-> <<>>]
        ELSE IF existing_user # {}
        THEN [resp |-> Response(400, "Username already registered", NoBody), users |-> U,
              hashed |-> FALSE, events |-> <<>>]
        ELSE [resp |-> Response(201, "", UserView(db_user)), users |-> U \cup {db_user},
              hashed |-> TRUE, events |-> <<>>]

\* register_user for the validated body data; salt is the salt bcrypt draws.
\* When the recorder raises, on a refusal or after the commit, "except
\* Exception" records the failure and answers 500.
register_user(U, data, fault, salt) ==
    LET existing_user == {u \in U : u.username = data.username}
        existing_email == {u \in U : u.email = data.email}
        db_user == [id |-> Cardinality(U) + 1, username |-> data.username,
                    email |-> data.email,
                    hashed_password |-> get_password_hash(data.password, salt)]
        internal(hashed) ==
            [resp |-> Response(500, "Internal server error during registration", NoBody),
             users |-> U, hashed |-> hashed,
             events |-> <<SecurityEvent("user_registration", data.username, FALSE,
                                        StoreErrorName)>>]
        recorder(stored, hashed) ==
            [resp |-> Response(500, "Internal server error during registration", NoBody),
             users |-> stored, hashed |-> hashed,
             events |-> <<SecurityEvent("user_registration", data.username, FALSE,
                                        RecorderErrorName)>>]
    IN  IF fault = "query" THEN internal(FALSE)
        ELSE IF Cardinality(existing_user) > 1 THEN internal(FALSE)
        ELSE IF existing_user # {} /\ fault = RecorderFault THEN recorder(U, FALSE)
        ELSE IF existing_user # {}
        THEN [resp |-> Response(400, "Username already registered", NoBody), users |-> U,
              hashed |-> FALSE,
              events |-> <<SecurityEvent("user_registration", data.username, FALSE,
                                         "Username already exists")>>]
        ELSE IF Cardinality(existing_email) > 1 THEN internal(FALSE)
        ELSE IF existing_email # {} /\ fault = RecorderFault THEN recorder(U, FALSE)
        ELSE IF existing_email # {}
        THEN [resp |-> Response(400, "Email already registered", NoBody), users |-> U,
              hashed |-> FALSE,
              events |-> <<SecurityEvent("user_registration", data.username, FALSE,
                                         "Email already exists")>>]
        ELSE IF fault = "commit" THEN internal(TRUE)
        ELSE IF fault = RecorderFault THEN recorder(U \cup {db_user}, TRUE)
        ELSE [resp |-> Response(201, "", UserView(db_user)), users |-> U \cup {db_user},
              hashed |-> TRUE,
              events |-> <<SecurityEvent("user_registration", data.username, TRUE, ""),
                           AuditEvent("user_registered", db_user.id, db_user.id)>>]

\* Mutant: the password is not verified.
authenticate_user_NoPassword(U, username, password, fault) ==
    LET rows == {u \in U : u.username = username}
    IN  IF fault = "lookup" THEN [ok |-> FALSE, user |-> NoUser]
        ELSE IF Cardinality(rows) # 1 THEN [ok |-> FALSE, user |-> NoUser]
        ELSE [ok |-> TRUE, user |-> CHOOSE u \in rows : TRUE]

\* authenticate_user(db, username, password): the user, or False
authenticate_user(U, username, password, fault) ==
    LET rows == {u \in U : u.username = username}
    IN  IF fault = "lookup" THEN [ok |-> FALSE, user |-> NoUser]
        ELSE IF Cardinality(rows) # 1 THEN [ok |-> FALSE, user |-> NoUser]
        ELSE LET user == CHOOSE u \in rows : TRUE
             IN  IF ~verify_password(password, user.hashed_password)
                 THEN [ok |-> FALSE, user |-> NoUser]
                 ELSE [ok |-> TRUE, user |-> user]

\* Mutant: a login with a username that matches no user says so.
login_user_UserNotFound(U, username, password, fault, t) ==
    LET a == authenticate_user(U, username, password, fault)
        access_token == create_access_token([sub |-> a.user.username],
                                            Delta(ACCESS_TOKEN_EXPIRE_MINUTES), t)
    IN  IF ~a.ok /\ fault = "none" /\ ~\E u \in U : u.username = username
        THEN [resp |-> Response(401, "Incorrect username or password", NoBody),
              events |-> <<SecurityEvent("login_attempt", username, FALSE,
                                         "User not found")>>]
        ELSE IF ~a.ok
        THEN [resp |-> Response(401, "Incorrect username or password", NoBody),
              events |-> <<SecurityEvent("login_attempt", username, FALSE,
                                         "Invalid credentials")>>]
        ELSE [resp |-> Response(200, "", [kind |-> "token", access_token |-> access_token,
                                          token_type |-> "bearer"]),
              events |-> <<SecurityEvent("login_attempt", username, TRUE, ""),
                           AuditEvent("user_login", a.user.id, 0)>>]

\* login_user for the form fields username and password, at time t.  The
\* recorder is called on every path, and when its call raises, "except
\* Exception" records the failure and answers 500.
login_user(U, username, password, fault, t) ==
    LET a == authenticate_user(U, username, password, fault)
        access_token == create_access_token([sub |-> a.user.username],
                                            Delta(ACCESS_TOKEN_EXPIRE_MINUTES), t)
    IN  IF fault = RecorderFault
        THEN [resp |-> Response(500, "Internal server error during login", NoBody),
              events |-> <<SecurityEvent("login_attempt", username, FALSE,
                                         RecorderErrorName)>>]
        ELSE IF ~a.ok
        THEN [resp |-> Response(401, "Incorrect username or password", NoBody),
              events |-> <<SecurityEvent("login_attempt", username, FALSE,
                                         "Invalid credentials")>>]
        ELSE [resp |-> Response(200, "", [kind |-> "token", access_token |-> access_token,
                                          token_type |-> "bearer"]),
              events |-> <<SecurityEvent("login_attempt", username, TRUE, ""),
                           AuditEvent("user_login", a.user.id, 0)>>]

\* A row of table "tasks" as it leaves without a response model: the columns,
\* state as the boolean it is stored as
TaskRow(t) ==
    [kind |-> "row", id |-> t.id, title |-> t.title, description |-> t.description,
     state |-> t.state, created_at |-> t.created_at, updated_at |-> t.updated_at,
     user_id |-> t.user_id]

\* A select without ORDER BY: the rows in any order
AnyOrder(rows) ==
    LET n == Cardinality(rows)
    IN  {s \in [1..n -> rows] : \A i, j \in 1..n : i # j => s[i] # s[j]}

\* read_user_tasks: the responses it can give.  A store error is not caught
\* here and is answered by general_exception_handler.
read_user_tasks(T, current_user, fault) ==
    IF fault = "query"
    THEN {Response(500, "Internal server error", NoBody)}
    ELSE {Response(200, "", [kind |-> "rows", items |-> [i \in DOMAIN s |-> TaskRow(s[i])]]) :
             s \in AnyOrder({x \in T : x.user_id = current_user.id})}

(***************************************************************************)
(* Bounds and request inputs                                               *)
(***************************************************************************)
MaxUsers == 2

MaxTasks == 2

MaxTokens == 2

MaxTicks == 1

alice == <<"a", "l", "i", "c", "e">>

AliceMixed == <<" ", "A", "l", "i", "c", "e">>

bob == <<"b", "o", "b">>

aliceEmail ==
    <<"a", "l", "i", "c", "e", "@", "e", "x", "a", "m", "p", "l", "e", ".", "c", "o", "m">>

bobEmail == <<"b", "o", "b", "@", "e", "x", "a", "m", "p", "l", "e", ".", "c", "o", "m">>

Passw0rd == <<"P", "a", "s", "s", "w", "0", "r", "d", "!">>

OtherPassword == <<"S", "e", "c", "r", "3", "t", "!", "x">>

BuyMilk == <<"B", "u", "y", " ", "m", "i", "l", "k">>

RegisterBodies ==
    [username : {alice, AliceMixed, bob, <<"a", "b">>},
     email : {aliceEmail, bobEmail},
     password : {Passw0rd},
     confirm_password : {Passw0rd, OtherPassword}]

LoginUsernames == {alice, bob}

LoginPasswords == {Passw0rd, OtherPassword}

CreateBodies ==
    { [title |-> BuyMilk, description |-> Missing],
      [title |-> <<"a", "b">>, description |-> Missing],
      [title |-> Missing, description |-> <<"d", "e", "s", "c">>] }

UpdateBodies ==
    { [title |-> Missing, description |-> Missing, state |-> done, extra |-> FALSE],
      [title |-> <<"N", "e", "w">>, description |-> Missing, state |-> Missing,
       extra |-> FALSE],
      [title |-> Missing, description |-> Missing, state |-> Missing, extra |-> FALSE],
      [title |-> BuyMilk, description |-> Missing, state |-> Missing, extra |-> TRUE] }

\* Task ids a client may ask for: those handed out so far and one never used
TaskIds == 1..nextTaskId

ListParams == {[skip |-> DefaultSkip, limit |-> DefaultLimit], [skip |-> 1, limit |-> 1]}

\* One advance of the clock takes a token issued before it past its expiry
TickSteps == {ACCESS_TOKEN_EXPIRE_MINUTES + 1}

\* A token whose subject was replaced while its signature was kept
Tamper(token, sub) == [claims |-> [token.claims EXCEPT !.sub = sub], sig |-> token.sig]

\* A token signed with a key that is not the server's
SelfSigned(sub, exp) ==
    LET claims == [sub |-> sub, exp |-> exp]
    IN  [claims |-> claims, sig |-> Sign(claims, "attacker-key")]

\* What a client may send as its bearer token: nothing, a token that login
\* issued, or a forgery made without the server's key
PresentedTokens ==
    {NoToken} \cup issued
        \cup {Tamper(t, IF t.claims.sub = alice THEN bob ELSE alice) : t \in issued}
        \cup {SelfSigned(alice, now + ACCESS_TOKEN_EXPIRE_MINUTES)}

\* The store can only fail where the request reaches it: the user lookup
\* when the token verifies, the handler's query and commit when moreover the
\* body is valid
FaultsAt(token, valid, points) ==
    IF token \in issued /\ token.claims.exp >= now
    THEN {"none"} \cup (points \cap {"lookup"})
            \cup (IF valid THEN points \cap {"query", "commit"} ELSE {})
    ELSE {"none"}

ValidationResponse(errors) ==
    Response(422, "Validation failed", [kind |-> "errors", fields |-> errors])

(***************************************************************************)
(* The end-to-end scenario of the spec, followed from the initial state:   *)
(* scen = k when the requests so far are exactly its first k steps;        *)
(* scen = -1 once the run has left it.                                     *)
(***************************************************************************)
ScenarioStep(k, l) ==
    /\ l.req.fault = "none"
    /\ \/ /\ k = 1
          /\ l.op = "register"
          /\ l.req.body = [username |-> alice, email |-> aliceEmail,
                           password |-> Passw0rd, confirm_password |-> Passw0rd]
       \/ /\ k = 2
          /\ l.op = "login"
          /\ l.req.username = alice
          /\ l.req.password = Passw0rd
       \/ /\ k = 3
          /\ l.op = "create_task"
          /\ l.req.token \in issued
          /\ l.req.body = [title |-> BuyMilk, description |-> Missing]
       \/ /\ k = 4
          /\ l.op = "update_task"
          /\ l.req.token \in issued
          /\ l.req.task_id = 1
          /\ l.req.body = [title |-> Missing, description |-> Missing, state |-> done,
                           extra |-> FALSE]
       \/ /\ k = 5
          /\ l.op = "delete_task"
          /\ l.req.token \in issued
          /\ l.req.task_id = 1
       \/ /\ k = 6
          /\ l.op = "read_task"
          /\ l.req.token \in issued
          /\ l.req.task_id = 1

ScenarioAdvance(k, l) == IF k >= 0 /\ ScenarioStep(k + 1, l) THEN k + 1 ELSE -1

\* The request and its response, as the client and the recorder see them
Exchange(op, req, resp, events) ==
    [op |-> op, req |-> req, status |-> resp.status, detail |-> resp.detail,
     body |-> resp.body, events |-> events]

(***************************************************************************)
(* Endpoints: dependencies (oauth2_scheme, get_current_user), then body    *)
(* validation, then the handler.  U, T: the tables; t: the time.           *)
(***************************************************************************)
Unchanged(resp, T) == [resp |-> resp, tasks |-> T, events |-> <<>>]

\* Mutant: the user row leaves as it is stored.
read_users_me_endpoint_RawRow(U, t, req) ==
    LET a == get_current_user(req.token, req.fault, U, t)
    IN  IF a.ok
        THEN Response(200, "", [kind |-> "user", id |-> a.user.id,
                                username |-> a.user.username, email |-> a.user.email,
                                hashed_password |-> a.user.hashed_password])
        ELSE a.resp

\* GET /auth/me
read_users_me_endpoint(U, t, req) ==
    LET a == get_current_user(req.token, req.fault, U, t)
    IN  IF a.ok THEN Response(200, "", UserView(a.user)) ELSE a.resp

\* GET /auth/me/tasks: the responses it can give
read_user_tasks_endpoint(U, T, t, req) ==
    LET a == get_current_user(req.token, req.fault, U, t)
    IN  IF ~a.ok THEN {a.resp} ELSE read_user_tasks(T, a.user, req.fault)

\* Mutant: the body is validated before the dependencies are resolved.
create_task_endpoint_ValidateFirst(U, T, t, req, id) ==
    LET a == get_current_user(req.token, req.fault, U, t)
        v == TaskCreate_validate(req.body)
    IN  IF ~v.ok THEN Unchanged(ValidationResponse(v.errors), T)
        ELSE IF ~a.ok THEN Unchanged(a.resp, T)
        ELSE create_task(T, a.user, v.data, req.fault, id, t)

\* POST /tasks/
create_task_endpoint(U, T, t, req, id) ==
    LET a == get_current_user(req.token, req.fault, U, t)
        v == TaskCreate_validate(req.body)
    IN  IF ~a.ok THEN Unchanged(a.resp, T)
        ELSE IF ~v.ok THEN Unchanged(ValidationResponse(v.errors), T)
        ELSE create_task(T, a.user, v.data, req.fault, id, t)

\* GET /tasks/: the responses it can give
read_tasks_endpoint(U, T, t, req) ==
    LET a == get_current_user(req.token, req.fault, U, t)
    IN  IF ~a.ok THEN {a.resp}
        ELSE read_tasks(T, a.user, req.skip, req.limit, req.fault)

\* Mutant: a task of another user is answered with 403 instead of 404.
read_task_endpoint_Forbidden(U, T, t, req) ==
    LET a == get_current_user(req.token, req.fault, U, t)
    IN  IF ~a.ok THEN a.resp
        ELSE IF req.fault # "query" /\ \E x \in T : x.id = req.task_id /\ x.user_id # a.user.id
        THEN Response(403, "Not enough permissions", NoBody)
        ELSE read_task(T, a.user, req.task_id, req.fault)

\* GET /tasks/{task_id}
read_task_endpoint(U, T, t, req) ==
    LET a == get_current_user(req.token, req.fault, U, t)
    IN  IF ~a.ok THEN a.resp ELSE read_task(T, a.user, req.task_id, req.fault)

\* PUT /tasks/{task_id}
update_task_endpoint(U, T, t, req) ==
    LET a == get_current_user(req.token, req.fault, U, t)
        v == TaskUpdate_validate(req.body)
    IN  IF ~a.ok THEN Unchanged(a.resp, T)
        ELSE IF ~v.ok THEN Unchanged(ValidationResponse(v.errors), T)
        ELSE update_task(T, a.user, req.task_id, v.data, req.fault)

\* DELETE /tasks/{task_id}
delete_task_endpoint(U, T, t, req) ==
    LET a == get_current_user(req.token, req.fault, U, t)
    IN  IF ~a.ok THEN Unchanged(a.resp, T)
        ELSE delete_task(T, a.user, req.task_id, req.fault)

\* POST /auth/register
register_endpoint(U, req) ==
    LET v == UserRegister_validate(req.body)
    IN  IF ~v.ok
        THEN [resp |-> ValidationResponse(v.errors), users |-> U, hashed |-> FALSE,
              events |-> <<>>]
        ELSE register_user(U, v.data, req.fault, Cardinality(U) + 1)

(***************************************************************************)
(* The service: one action per endpoint, each the whole request            *)
(***************************************************************************)
\* No request is being answered
Idle == [op |-> "idle"]

Init ==
    /\ users = {}
    /\ tasks = {}
    /\ nextTaskId = 1
    /\ issued = {}
    /\ now = 0
    /\ ticks = 0
    /\ last = Idle
    /\ scen = 0

Register ==
    /\ last = Idle
    /\ \E body \in RegisterBodies :
       \E fault \in IF UserRegister_validate(body).ok THEN {"none", "query", "commit"}
                    ELSE {"none"} :
        LET req == [body |-> body, fault |-> fault]
            r == register_endpoint(users, req)
        IN  /\ Cardinality(r.users) <= MaxUsers
            /\ users' = r.users
            /\ last' = Exchange("register", req, r.resp, r.events)
            /\ scen' = ScenarioAdvance(scen, last')
            /\ UNCHANGED <<tasks, nextTaskId, issued, now, ticks>>

Login ==
    /\ last = Idle
    /\ \E username \in LoginUsernames, password \in LoginPasswords,
         fault \in {"none", "lookup"} :
        LET req == [username |-> username, password |-> password, fault |-> fault]
            r == login_user(users, username, password, fault, now)
        IN  /\ IF r.resp.status = 200
               THEN /\ issued' = issued \cup {r.resp.body.access_token}
                    /\ Cardinality(issued') <= MaxTokens
               ELSE issued' = issued
            /\ last' = Exchange("login", req, r.resp, r.events)
            /\ scen' = ScenarioAdvance(scen, last')
            /\ UNCHANGED <<users, tasks, nextTaskId, now, ticks>>

ReadUsersMe ==
    /\ last = Idle
    /\ \E token \in PresentedTokens :
       \E fault \in FaultsAt(token, TRUE, {"lookup"}) :
        LET req == [token |-> token, fault |-> fault]
        IN  /\ last' = Exchange("read_users_me", req,
                                read_users_me_endpoint(users, now, req), <<>>)
            /\ scen' = ScenarioAdvance(scen, last')
            /\ UNCHANGED <<users, tasks, nextTaskId, issued, now, ticks>>

ReadUserTasks ==
    /\ last = Idle
    /\ \E token \in PresentedTokens :
       \E fault \in FaultsAt(token, TRUE, {"lookup", "query"}) :
        LET req == [token |-> token, fault |-> fault]
        IN  /\ \E resp \in read_user_tasks_endpoint(users, tasks, now, req) :
                  last' = Exchange("read_user_tasks", req, resp, <<>>)
            /\ scen' = ScenarioAdvance(scen, last')
            /\ UNCHANGED <<users, tasks, nextTaskId, issued, now, ticks>>

CreateTask ==
    /\ last = Idle
    /\ \E token \in PresentedTokens, body \in CreateBodies :
       \E fault \in FaultsAt(token, TaskCreate_validate(body).ok, {"lookup", "commit"}) :
        LET req == [token |-> token, body |-> body, fault |-> fault]
            r == create_task_endpoint(users, tasks, now, req, nextTaskId)
        IN  /\ r.resp.status \in {201, 500} => nextTaskId <= MaxTasks
            /\ tasks' = r.tasks
            /\ nextTaskId' = IF r.resp.status = 201 THEN nextTaskId + 1 ELSE nextTaskId
            /\ last' = Exchange("create_task", req, r.resp, r.events)
            /\ scen' = ScenarioAdvance(scen, last')
            /\ UNCHANGED <<users, issued, now, ticks>>

ReadTasks ==
    /\ last = Idle
    /\ \E token \in PresentedTokens, params \in ListParams :
       \E fault \in FaultsAt(token, TRUE, {"lookup", "query"}) :
        LET req == [token |-> token, skip |-> params.skip, limit |-> params.limit,
                    fault |-> fault]
        IN  /\ \E resp \in read_tasks_endpoint(users, tasks, now, req) :
                  last' = Exchange("read_tasks", req, resp, <<>>)
            /\ scen' = ScenarioAdvance(scen, last')
            /\ UNCHANGED <<users, tasks, nextTaskId, issued, now, ticks>>

ReadTask ==
    /\ last = Idle
    /\ \E token \in PresentedTokens, task_id \in TaskIds :
       \E fault \in FaultsAt(token, TRUE, {"lookup", "query"}) :
        LET req == [token |-> token, task_id |-> task_id, fault |-> fault]
        IN  /\ last' = Exchange("read_task", req,
                                read_task_endpoint(users, tasks, now, req), <<>>)
            /\ scen' = ScenarioAdvance(scen, last')
            /\ UNCHANGED <<users, tasks, nextTaskId, issued, now, ticks>>

\* db.commit() is not among the store calls that can fail here: update_task
\* never gets to it
UpdateTask ==
    /\ last = Idle
    /\ \E token \in PresentedTokens, task_id \in TaskIds, body \in UpdateBodies :
       \E fault \in FaultsAt(token, TaskUpdate_validate(body).ok, {"lookup", "query"}) :
        LET req == [token |-> token, task_id |-> task_id, body |-> body, fault |-> fault]
            r == update_task_endpoint(users, tasks, now, req)
        IN  /\ tasks' = r.tasks
            /\ last' = Exchange("update_task", req, r.resp, r.events)
            /\ scen' = ScenarioAdvance(scen, last')
            /\ UNCHANGED <<users, nextTaskId, issued, now, ticks>>

\* As in UpdateTask, delete_task never gets to db.commit()
DeleteTask ==
    /\ last = Idle
    /\ \E token \in PresentedTokens, task_id \in TaskIds :
       \E fault \in FaultsAt(token, TRUE, {"lookup", "query"}) :
        LET req == [token |-> token, task_id |-> task_id, fault |-> fault]
            r == delete_task_endpoint(users, tasks, now, req)
        IN  /\ tasks' = r.tasks
            /\ last' = Exchange("delete_task", req, r.resp, r.events)
            /\ scen' = ScenarioAdvance(scen, last')
            /\ UNCHANGED <<users, nextTaskId, issued, now, ticks>>

\* Time passes between requests.  Time is counted from the first login: the
\* tables keep no time of what happened before it.
Tick ==
    /\ last = Idle
    /\ issued # {}
    /\ ticks < MaxTicks
    /\ \E d \in TickSteps : now' = now + d
    /\ ticks' = ticks + 1
    /\ scen' = -1
    /\ UNCHANGED <<users, tasks, nextTaskId, issued, last>>

\* The client receives the response; the service is ready for the next request
Deliver ==
    /\ last # Idle
    /\ last' = Idle
    /\ UNCHANGED <<users, tasks, nextTaskId, issued, now, ticks, scen>>

Next ==
    \/ Register
    \/ Login
    \/ ReadUsersMe
    \/ ReadUserTasks
    \/ CreateTask
    \/ ReadTasks
    \/ ReadTask
    \/ UpdateTask
    \/ DeleteTask
    \/ Tick
    \/ Deliver

Spec == Init /\ [][Next]_vars

(***************************************************************************)
(* Properties of the service                                               *)
(***************************************************************************)
\* The users a bearer token authenticates now: the token came from login,
\* has not expired, and names the user
HolderOf(token) ==
    {u \in users : token \in issued /\ token.claims.exp >= now
                   /\ token.claims.sub = u.username}

\* This step is a request to one of the operations ops
IsRequest(ops) == last = Idle /\ last' # Idle /\ last'.op \in ops

TaskOps == {"read_task", "update_task", "delete_task"}

\* The request is one the handler gets to see: its body, if any, is valid
WellFormed(l) == l.op = "update_task" => TaskUpdate_validate(l.req.body).ok

\* C1: for distinct users A and B and a task T of A, a read, update or delete
\* of T requested with B's identity is answered 404 "Task not found" (when
\* the store does not fail), never carries a task in its body, and leaves
\* the task table as it was.
C1_OwnershipIsolation ==
    [][\A B \in users, T \in tasks :
          (/\ IsRequest(TaskOps)
           /\ WellFormed(last')
           /\ B \in HolderOf(last'.req.token)
           /\ T.id = last'.req.task_id
           /\ T.user_id # B.id)
          => /\ last'.req.fault = "none"
                  => last'.status = 404 /\ last'.detail = "Task not found"
             /\ last'.status # 200
             /\ last'.body = NoBody
             /\ tasks' = tasks]_vars

\* C1 witness: B asked to delete an existing task of another user and the
\* answer was 404.
C1_Witness ==
    /\ last.op = "delete_task"
    /\ last.status = 404
    /\ \E B \in HolderOf(last.req.token), T \in tasks :
          T.id = last.req.task_id /\ T.user_id # B.id

\* C2: for an authenticated user and a task id, the responses of read,
\* update and delete are the same whether the task exists and belongs to
\* another user or no task with that id exists: removing the other user's
\* task from the table changes no response.  Stated of the tables as they
\* stand between requests, which is every state they are ever in.
C2_NotMineLikeNotThere ==
    \A B \in users, T \in tasks, token \in issued, body \in UpdateBodies, fault \in Faults :
        (last = Idle /\ B \in HolderOf(token) /\ T.user_id # B.id)
        => LET req == [token |-> token, task_id |-> T.id, body |-> body, fault |-> fault]
               absent == tasks \ {T}
           IN  /\ read_task_endpoint(users, tasks, now, req)
                    = read_task_endpoint(users, absent, now, req)
               /\ update_task_endpoint(users, tasks, now, req).resp
                    = update_task_endpoint(users, absent, now, req).resp
               /\ delete_task_endpoint(users, tasks, now, req).resp
                    = delete_task_endpoint(users, absent, now, req).resp

\* C2 witness: a read of another user's existing task was answered 404, and
\* the same user's read of an id that no task has gets the same response.
C2_Witness ==
    /\ last.op = "read_task"
    /\ last.status = 404
    /\ \E B \in HolderOf(last.req.token), T \in tasks :
          /\ T.id = last.req.task_id
          /\ T.user_id # B.id
          /\ \E id \in TaskIds :
                /\ \A x \in tasks : x.id # id
                /\ read_task_endpoint(users, tasks, now, [last.req EXCEPT !.task_id = id])
                     = Response(last.status, last.detail, last.body)

StateOnlyDone == [title |-> Missing, description |-> Missing, state |-> done, extra |-> FALSE]

\* C3: when the owner updates an existing task with a payload that contains
\* only state = "done", the update succeeds and afterwards the task has the
\* same title and description, state done, and a later updated_at.
C3_OwnerUpdatesState ==
    [][\A A \in users, T \in tasks :
          (/\ IsRequest({"update_task"})
           /\ last'.req.body = StateOnlyDone
           /\ last'.req.fault = "none"
           /\ A \in HolderOf(last'.req.token)
           /\ T.id = last'.req.task_id
           /\ T.user_id = A.id
           /\ now > T.updated_at)
          => /\ last'.status = 200
             /\ \E T2 \in tasks' :
                   /\ T2.id = T.id
                   /\ T2.title = T.title
                   /\ T2.description = T.description
                   /\ T2.state = TRUE
                   /\ T2.updated_at > T.updated_at]_vars

\* C4: in the scenario register alice, login, create "Buy milk", update it
\* with state done, delete it, read it, the answers are: created user, token,
\* created pending task, the task with state done, success, 404.
C4_Scenario ==
    last # Idle =>
        /\ scen = 1 => last.status = 201
        /\ scen = 2 => last.status = 200 /\ last.body.kind = "token"
        /\ scen = 3 => /\ last.status = 201
                       /\ last.body.title = BuyMilk
                       /\ last.body.state = pending
        /\ scen = 4 => last.status = 200 /\ last.body.state = done
        /\ scen = 5 => last.status = 200
        /\ scen = 6 => last.status = 404

\* C5: when a user with username U exists, a registration with username U
\* is answered 400 "Username already registered" for every email, whether
\* or not the email is registered too, and the user table is unchanged.
C5_DuplicateUsername ==
    [][\A u \in users :
          (/\ IsRequest({"register"})
           /\ last'.req.fault = "none"
           /\ UserRegister_validate(last'.req.body).ok
           /\ lower(strip(last'.req.body.username)) = u.username)
          => /\ last'.status = 400
             /\ last'.detail = "Username already registered"
             /\ users' = users]_vars

\* C5 witness: a registration found both its username and, at another user,
\* its email taken, and was answered for the username.
C5_Witness ==
    /\ last.op = "register"
    /\ last.status = 400
    /\ last.detail = "Username already registered"
    /\ \E u, w \in users :
          /\ u # w
          /\ u.username = lower(strip(last.req.body.username))
          /\ w.email = last.req.body.email

(***************************************************************************)
(* Username validators on their own: Init draws the input, the action      *)
(* applies a validator to it                                               *)
(***************************************************************************)
MaxUsernameInputLen == 4

UsernameAlphabet == {"a", "A", "b", "1", "_", " "}

UsernameSamples ==
    { <<"A", "d", "m", "i", "n">>, <<" ", "r", "o", "o", "t", " ">>,
      <<"B", "o", "b", "-", "1">>, <<"a", "a", "a", "a", "a">>,
      <<"A", "l", "i", "c", "e", "_">>, <<"b", "o", "b", "!">> }

UsernameInputs == SeqsUpTo(UsernameAlphabet, MaxUsernameInputLen) \cup UsernameSamples

\* field_validator("username") of the schema class cls
validate_username(cls, raw) ==
    IF cls = "UserBase" THEN UserBase_validate_username(raw)
    ELSE UserRegister_validate_username(raw)

Quiet ==
    /\ users = {}
    /\ tasks = {}
    /\ nextTaskId = 1
    /\ issued = {}
    /\ now = 0
    /\ ticks = 0
    /\ scen = 0

InitUsername ==
    /\ Quiet
    /\ \E raw \in UsernameInputs : last = [op |-> "username_input", raw |-> raw]

ValidateUsername(cls) ==
    /\ last.op = "username_input"
    /\ last' = [op |-> "validate_username", cls |-> cls, raw |-> last.raw,
                result |-> validate_username(cls, last.raw)]
    /\ UNCHANGED <<users, tasks, nextTaskId, issued, now, ticks, scen>>

ValidateUserBase == ValidateUsername("UserBase")

ValidateUserRegister == ValidateUsername("UserRegister")

NextUsername ==
    \/ ValidateUserBase
    \/ ValidateUserRegister

SpecUsername == InitUsername /\ [][NextUsername]_vars

\* C6: every username a user validator accepts is returned in lowercase,
\* and validating the returned value again succeeds and returns it
\* unchanged.
C6_UsernameIdempotent ==
    (last.op = "validate_username" /\ last.result.ok)
    => /\ last.result.value = lower(last.result.value)
       /\ validate_username(last.cls, last.result.value) = Ok(last.result.value)

(***************************************************************************)
(* Token round trip on its own                                             *)
(***************************************************************************)
MaxIssueTime == 1

ExpiresDeltas ==
    {NoDelta, Delta(0), Delta(1), Delta(15), Delta(ACCESS_TOKEN_EXPIRE_MINUTES), Delta(-1)}

Elapsed == {0, 1, 2, 14, 15, 16, 29, 30, 31}

\* What happens to the token between issue and verification
Forgeries == {"none", "subject", "expiry", "signature"}

Forge(token, how) ==
    IF how = "subject" THEN Tamper(token, IF token.claims.sub = alice THEN bob ELSE alice)
    ELSE IF how = "expiry"
         THEN [claims |-> [token.claims EXCEPT !.exp = @ + 1000], sig |-> token.sig]
    ELSE IF how = "signature"
         THEN [claims |-> token.claims, sig |-> Sign(token.claims, "attacker-key")]
    ELSE token

InitToken ==
    /\ Quiet
    /\ \E sub \in {alice, bob}, d \in ExpiresDeltas, t \in 0..MaxIssueTime, e \in Elapsed,
         how \in Forgeries :
          last = [op |-> "token_input", sub |-> sub, expires_delta |-> d, issued_at |-> t,
                  elapsed |-> e, forgery |-> how]

IssueAndVerify ==
    /\ last.op = "token_input"
    /\ LET token == create_access_token([sub |-> last.sub], last.expires_delta,
                                        last.issued_at)
           at == last.issued_at + last.elapsed
           presented == Forge(token, last.forgery)
       IN  last' = [op |-> "verify_token", sub |-> last.sub,
                    expires_delta |-> last.expires_delta, issued_at |-> last.issued_at,
                    forgery |-> last.forgery, token |-> token, at |-> at,
                    result |-> verify_token(presented, at)]
    /\ UNCHANGED <<users, tasks, nextTaskId, issued, now, ticks, scen>>

NextToken == IssueAndVerify

SpecToken == InitToken /\ [][NextToken]_vars

\* C7: for every subject and every ttl, verify_token on the token that
\* create_access_token made returns that subject at any time before the
\* token's expiry, and fails at any time after the expiry and whenever the
\* token was tampered with.  The expiry of a token made with a positive ttl
\* is the issue time plus the ttl.
C7_TokenRoundTrip ==
    last.op = "verify_token" =>
        /\ (last.expires_delta.given /\ last.expires_delta.minutes > 0)
              => last.token.claims.exp = last.issued_at + last.expires_delta.minutes
        /\ (last.forgery = "none" /\ last.at < last.token.claims.exp)
              => last.result = [ok |-> TRUE, username |-> last.sub]
        /\ (last.forgery # "none" \/ last.at > last.token.claims.exp)
              => ~last.result.ok

\* C7 witness: a token was verified before its expiry and gave its subject,
\* with a ttl that is not the default.
C7_Witness ==
    /\ last.op = "verify_token"
    /\ last.forgery = "none"
    /\ last.expires_delta = Delta(15)
    /\ last.at = last.issued_at + 14
    /\ last.result.ok
    /\ last.result.username = last.sub

(***************************************************************************)
(* Password hashing on its own                                             *)
(***************************************************************************)
MaxSalt == 3

\* 72 characters
Pad72 ==
    Passw0rd \o Passw0rd \o Passw0rd \o Passw0rd \o Passw0rd \o Passw0rd \o Passw0rd
        \o Passw0rd

PasswordInputs ==
    { Passw0rd, OtherPassword, Passw0rd \o <<"x">>, Pad72, Pad72 \o <<"x">>,
      Pad72 \o <<"y">>, <<"p", "a", "s", "s">> }

InitPassword ==
    /\ Quiet
    /\ \E p \in PasswordInputs, q \in PasswordInputs, s1 \in 1..MaxSalt, s2 \in 1..MaxSalt :
          /\ s1 # s2
          /\ last = [op |-> "password_input", p |-> p, q |-> q, salt1 |-> s1, salt2 |-> s2]

\* Two calls of get_password_hash(p), each with the salt it drew, and the
\* verifications of p and q against them
HashAndVerify ==
    /\ last.op = "password_input"
    /\ LET h1 == get_password_hash(last.p, last.salt1)
           h2 == get_password_hash(last.p, last.salt2)
       IN  last' = [op |-> "verify_password", p |-> last.p, q |-> last.q,
                    hash1 |-> h1, hash2 |-> h2,
                    p_hash1 |-> verify_password(last.p, h1),
                    q_hash1 |-> verify_password(last.q, h1),
                    p_hash2 |-> verify_password(last.p, h2)]
    /\ UNCHANGED <<users, tasks, nextTaskId, issued, now, ticks, scen>>

NextPassword == HashAndVerify

SpecPassword == InitPassword /\ [][NextPassword]_vars

\* The password meets the registration policy
MeetsPolicy(p) == UserRegister_validate_password(p).ok

\* C8: for passwords p and q meeting the policy, p verifies against a hash
\* of p, q does not when q # p, and two hashes of p differ from each other
\* and from p, and both verify p.
C8_PasswordRoundTrip ==
    (last.op = "verify_password" /\ MeetsPolicy(last.p) /\ MeetsPolicy(last.q))
    => /\ last.p_hash1
       /\ last.q # last.p => ~last.q_hash1
       /\ last.hash1 # last.hash2
       /\ last.hash1.digest # last.p
       /\ last.hash2.digest # last.p
       /\ last.p_hash2

(***************************************************************************)
(* Properties of the identity resolver, in the service                     *)
(***************************************************************************)
\* Bearer tokens of every make: any subject or none, expired or not, signed
\* by the server, by someone else, or by the server over other claims
TokenUniverse ==
    LET ClaimSets == [sub : {alice, bob, None}, exp : {now - 1, now, now + 1}]
    IN  {NoToken} \cup issued
          \cup {[claims |-> c, sig |-> Sign(c, SECRET_KEY)] : c \in ClaimSets}
          \cup {[claims |-> c, sig |-> Sign(c, "attacker-key")] : c \in ClaimSets}
          \cup {[claims |-> c, sig |-> Sign([c EXCEPT !.sub = alice], SECRET_KEY)] :
                  c \in ClaimSets}

\* The token is the server's, unexpired, has a subject, and a user of that
\* name is in the table
Genuine(token) ==
    /\ token # NoToken
    /\ token.sig = Sign(token.claims, SECRET_KEY)
    /\ token.claims.exp >= now
    /\ token.claims.sub # None
    /\ \E u \in users : u.username = token.claims.sub

\* C9: get_current_user returns a user only for a token with a valid
\* signature, unexpired and with a subject that is the username of a stored
\* user, and then returns that user; in every other case it fails with 401
\* and returns no user.  Stated of the user table and the clock as they
\* stand between requests, which is every state they are ever in.
C9_ResolverSound ==
    last = Idle =>
    \A token \in TokenUniverse, fault \in {"none", "lookup"} :
        LET r == get_current_user(token, fault, users, now)
        IN  /\ r.ok => /\ Genuine(token)
                       /\ r.user \in users
                       /\ r.user.username = token.claims.sub
            /\ ~r.ok => r.resp.status = 401 /\ r.user = NoUser
            /\ ~Genuine(token) => ~r.ok
            /\ (Genuine(token) /\ fault = "none") => r.ok

\* C9 witness: with two users stored, /auth/me answered with the user the
\* token names.
C9_Witness ==
    /\ last.op = "read_users_me"
    /\ last.status = 200
    /\ Cardinality(users) = 2
    /\ last.req.token.claims.sub = bob
    /\ get_current_user(last.req.token, last.req.fault, users, now).user.username = bob

\* C10: a request to create a task or to list tasks without a bearer token
\* is answered 401 whatever its body, before any handler code has recorded
\* anything, and leaves the user table and the task table unchanged.
C10_NoTokenRejected ==
    [][(IsRequest({"create_task", "read_tasks"}) /\ last'.req.token = NoToken)
          => /\ last'.status = 401
             /\ last'.body = NoBody
             /\ last'.events = <<>>
             /\ users' = users
             /\ tasks' = tasks
             /\ nextTaskId' = nextTaskId]_vars

\* C10 witness: a create request without a token and with a body that
\* validation would refuse was answered 401, with users and tasks stored.
C10_Witness ==
    /\ last.op = "create_task"
    /\ last.req.token = NoToken
    /\ ~TaskCreate_validate(last.req.body).ok
    /\ last.status = 401
    /\ users # {}
    /\ tasks # {}

(***************************************************************************)
(* Properties of login, validation and listing                             *)
(***************************************************************************)
\* The stored users the login form's username and password match
Matching(username, password) ==
    {u \in users : u.username = username /\ verify_password(password, u.hashed_password)}

\* C11: a login whose username matches no stored user, or whose password
\* does not verify against that user's stored hash, is answered 401 and
\* issues no token; a token is issued only when the user exists and the
\* password verifies, and it names that user.
C11_LoginNeedsCredentials ==
    [][IsRequest({"login"})
          => LET match == Matching(last'.req.username, last'.req.password)
             IN  /\ match = {} => /\ last'.status = 401
                                  /\ last'.body = NoBody
                                  /\ issued' = issued
                 /\ (last'.status = 200 \/ issued' # issued \/ last'.body # NoBody)
                       => /\ match # {}
                          /\ last'.status = 200
                          /\ last'.body.kind = "token"
                          /\ last'.body.access_token.claims.sub = last'.req.username
                          /\ last'.body.access_token \in issued']_vars

\* C11 witness: a login with the username of a stored user and a password
\* that is not that user's was answered 401, without a store failure.
C11_Witness ==
    /\ last.op = "login"
    /\ last.req.fault = "none"
    /\ last.status = 401
    /\ \E u \in users : u.username = last.req.username
    /\ Matching(last.req.username, last.req.password) = {}

(***************************************************************************)
(* Task-update payloads on their own: Init draws the payload, validation   *)
(* is applied to it, and update_task to what validation lets through       *)
(***************************************************************************)
\* Spellings of the strings validate_fields turns into None
NullWords ==
    { <<"n", "u", "l", "l">>, <<"N", "U", "L", "L">>, <<"N", "o", "n", "e">>,
      <<"U", "n", "d", "e", "f", "i", "n", "e", "d">> }

NewTitle == <<"N", "e", "w", " ", "t", "i", "t", "l", "e">>

NewText == <<"N", "e", "w", " ", "t", "e", "x", "t">>

UpdatePayloads ==
    [title : {Missing, None, NewTitle, <<"a", "b">>, <<>>} \cup NullWords,
     description : {Missing, None, NewText, <<" ">>} \cup NullWords,
     state : {Missing, None, done, <<" ", "T", "o", "d", "o">>, <<"l", "a", "t", "e", "r">>}
                \cup NullWords,
     extra : BOOLEAN]

\* The owner and the task the accepted payloads are applied to
SampleUser == [id |-> 1, username |-> alice]

SampleTask ==
    [id |-> 1, title |-> BuyMilk, description |-> None, state |-> FALSE,
     created_at |-> 0, updated_at |-> 0, user_id |-> 1]

InitTaskUpdate ==
    /\ Quiet
    /\ \E body \in UpdatePayloads : last = [op |-> "update_payload", body |-> body]

ValidateUpdate ==
    /\ last.op = "update_payload"
    /\ last' = [op |-> "validate_update", body |-> last.body,
                result |-> TaskUpdate_validate(last.body)]
    /\ UNCHANGED <<users, tasks, nextTaskId, issued, now, ticks, scen>>

ApplyUpdate ==
    /\ last.op = "validate_update"
    /\ last.result.ok
    /\ LET r == update_task({SampleTask}, SampleUser, SampleTask.id, last.result.data, "none")
       IN  last' = [op |-> "apply_update", body |-> last.body, result |-> last.result,
                    status |-> r.resp.status, after |-> r.tasks]
    /\ UNCHANGED <<users, tasks, nextTaskId, issued, now, ticks, scen>>

NextTaskUpdate ==
    \/ ValidateUpdate
    \/ ApplyUpdate

SpecTaskUpdate == InitTaskUpdate /\ [][NextTaskUpdate]_vars

UpdateFieldNames == {"title", "description", "state"}

\* The payload has the field, and not as a value
AbsentValue(v) == v = None \/ v \in NullWords

\* A value of the field that validation accepts as it is
RealValue(f, v) ==
    \/ f = "title" /\ v = NewTitle
    \/ f = "description" /\ v = NewText
    \/ f = "state" /\ v = done

DoneWords ==
    { <<"d", "o", "n", "e">>,
      <<"c", "o", "m", "p", "l", "e", "t", "e", "d">>,
      <<"f", "i", "n", "i", "s", "h", "e", "d">>,
      <<"c", "o", "m", "p", "l", "e", "t", "e">>, <<"t", "r", "u", "e">>, <<"1">> }

PendingWords ==
    { <<"p", "e", "n", "d", "i", "n", "g">>,
      <<"t", "o", "d", "o">>,
      <<"i", "n", "c", "o", "m", "p", "l", "e", "t", "e">>,
      <<"o", "p", "e", "n">>, <<"f", "a", "l", "s", "e">>, <<"0">> }

OtherWords ==
    { <<>>, <<"l", "a", "t", "e", "r">>, <<"d", "o", "i", "n", "g">>, <<"y", "e", "s">>, <<"2">>,
      <<"d", "o", "n", "e", "!">>, <<"t", "o", " ", "d", "o">>, <<"n", "u", "l", "l">> }

\* Ways of writing a word: as it is, in capitals, capitalised, and with
\* whitespace around it
Writings == {"plain", "capitals", "capitalised", "padded"}

ToUpperChar(c) ==
    IF c \in LowerChars
    THEN UpperSeq[CHOOSE i \in 1..Len(LowerSeq) : LowerSeq[i] = c]
    ELSE c

Written(word, how) ==
    IF how = "capitals" THEN [i \in 1..Len(word) |-> ToUpperChar(word[i])]
    ELSE IF how = "capitalised"
         THEN [i \in 1..Len(word) |-> IF i = 1 THEN ToUpperChar(word[i]) ELSE word[i]]
    ELSE IF how = "padded" THEN <<" ">> \o word \o <<" ", "\t">>
    ELSE word

InitState ==
    /\ Quiet
    /\ \/ \E word \in DoneWords \cup PendingWords \cup OtherWords, how \in Writings :
             last = [op |-> "state_input", word |-> word, raw |-> Written(word, how)]
       \/ last = [op |-> "state_input", word |-> None, raw |-> None]

ValidateState ==
    /\ last.op = "state_input"
    /\ last' = [op |-> "validate_state", word |-> last.word, raw |-> last.raw,
                result |-> TaskUpdate_validate_state(last.raw)]
    /\ UNCHANGED <<users, tasks, nextTaskId, issued, now, ticks, scen>>

NextState == ValidateState

SpecState == InitState /\ [][NextState]_vars

\* C13: the state validator gives done for each word for done and pending
\* for each word for pending, however the word is capitalised and padded
\* with whitespace, rejects every other value that is not absent, the empty
\* string included, and returns its own output unchanged when applied to it.
C13_StateSynonyms ==
    last.op = "validate_state" =>
        /\ last.word \in DoneWords => last.result = Ok(done)
        /\ last.word \in PendingWords => last.result = Ok(pending)
        /\ last.word \in OtherWords => ~last.result.ok
        /\ last.word = None => last.result = Ok(None)
        /\ last.result.ok => TaskUpdate_validate_state(last.result.value) = last.result

\* C13 witness: a padded word for pending was given and pending came back.
C13_Witness ==
    /\ last.op = "validate_state"
    /\ last.raw = <<" ", "t", "o", "d", "o", " ", "\t">>
    /\ last.result = Ok(pending)

(***************************************************************************)
(* What responses carry                                                    *)
(***************************************************************************)
\* The names of the fields of a response body, those of the tasks it lists
\* and of the claims of a token it carries included
FieldNames(body) ==
    DOMAIN body
      \cup (IF body.kind \in {"tasks", "rows"}
            THEN UNION {DOMAIN body.items[i] : i \in DOMAIN body.items} ELSE {})
      \cup (IF body.kind = "token" THEN DOMAIN body.access_token.claims ELSE {})

\* C14: no response of registration, login, profile or the task operations
\* has a field password or hashed_password, in its body, in a task it lists
\* or in the claims of the token it carries.
C14_NoPasswordInResponses ==
    last # Idle => FieldNames(last.body) \cap {"password", "hashed_password"} = {}

\* C14 witness: the profile of a registered user, who has a stored password
\* hash, was answered with that user's name.
C14_Witness ==
    /\ last.op = "read_users_me"
    /\ last.status = 200
    /\ \E u \in users : /\ u.username = last.body.username
                        /\ "hashed_password" \in DOMAIN u

ListOps == {"read_tasks", "read_user_tasks"}

\* C15: a listing requested by user U (GET /tasks/ or GET /auth/me/tasks) is
\* answered 200 when the store does not fail, lists only tasks whose owner is
\* U, and, with the default skip and limit, lists every task U owns.
C15_ListingOwnTasks ==
    [][\A U \in users :
          (IsRequest(ListOps) /\ U \in HolderOf(last'.req.token))
          => /\ last'.req.fault = "none" => last'.status = 200
             /\ last'.status = 200
                  => LET items == last'.body.items
                     IN  /\ \A i \in DOMAIN items :
                               \E T \in tasks : /\ T.id = items[i].id
                                                /\ T.user_id = U.id
                                                /\ items[i].user_id = U.id
                         /\ (\/ last'.op = "read_user_tasks"
                             \/ /\ last'.req.skip = DefaultSkip
                                /\ last'.req.limit = DefaultLimit)
                              => \A T \in tasks :
                                    T.user_id = U.id
                                    => \E i \in DOMAIN items : items[i].id = T.id]_vars

\* C15 witness: while another user has a task too, a user's listing with the
\* default skip and limit was answered with that user's task.
C15_Witness ==
    /\ last.op = "read_tasks"
    /\ last.status = 200
    /\ last.req.skip = DefaultSkip
    /\ last.req.limit = DefaultLimit
    /\ Len(last.body.items) = 1
    /\ \E U \in HolderOf(last.req.token), T \in tasks :
          T.user_id # U.id /\ last.body.items[1].user_id = U.id

(***************************************************************************)
(* Task-create requests on their own: Init draws the request, sent to a    *)
(* service with one registered user who has logged in                      *)
(***************************************************************************)
AliceRow ==
    [id |-> 1, username |-> alice, email |-> aliceEmail,
     hashed_password |-> get_password_hash(Passw0rd, 1)]

AliceToken == create_access_token([sub |-> alice], Delta(ACCESS_TOKEN_EXPIRE_MINUTES), 0)

CreatePayloads ==
    [title : {Missing, None, BuyMilk, <<"a", "b">>} \cup NullWords \cup string_nulls,
     description : {Missing, None, NewText}]

CreateRequests ==
    [token : {NoToken, AliceToken, Tamper(AliceToken, bob)},
     body : CreatePayloads,
     fault : {"none", "lookup", "commit"}]

InitTaskCreate ==
    /\ users = {AliceRow}
    /\ tasks = {}
    /\ nextTaskId = 1
    /\ issued = {AliceToken}
    /\ now = 0
    /\ ticks = 0
    /\ scen = -1
    /\ \E req \in CreateRequests : last = [op |-> "create_request", req |-> req]

PostTask ==
    /\ last.op = "create_request"
    /\ LET r == create_task_endpoint(users, tasks, now, last.req, nextTaskId)
       IN  /\ tasks' = r.tasks
           /\ nextTaskId' = IF r.resp.status = 201 THEN nextTaskId + 1 ELSE nextTaskId
           /\ last' = Exchange("create_task", last.req, r.resp, r.events)
    /\ UNCHANGED <<users, issued, now, ticks, scen>>

NextTaskCreate == PostTask

SpecTaskCreate == InitTaskCreate /\ [][NextTaskCreate]_vars

\* The payload has no title: the field is missing, null, or one of the
\* strings null / none / undefined
TitleAbsent(body) == body.title \in {Missing, None} \cup NullWords \cup string_nulls

\* The answer to a create request is a refusal by validation that created
\* nothing and recorded nothing
RefusedByValidation ==
    /\ last'.status = 422
    /\ last'.body.kind = "errors"
    /\ last'.events = <<>>
    /\ tasks' = tasks
    /\ nextTaskId' = nextTaskId

\* C16 as stated: every create request whose payload has no title is
\* answered 422 and creates no task.
C16_AsStated ==
    [][(last.op = "create_request" /\ TitleAbsent(last.req.body))
          => RefusedByValidation]_vars

\* C16, amended: a create request of an authenticated requester (the token
\* resolves to a stored user, the lookup in the user table included) whose
\* payload has no title is answered 422 before the handler runs, whether or
\* not the task table would fail, and creates no task.
C16_AbsentTitleRejected ==
    [][(/\ last.op = "create_request"
        /\ TitleAbsent(last.req.body)
        /\ get_current_user(last.req.token, last.req.fault, users, now).ok)
          => RefusedByValidation]_vars

\* C16 witness: an authenticated create request with title "null", sent
\* while the task table fails, was answered 422 and no task is stored.
C16_Witness ==
    /\ last.op = "create_task"
    /\ last.req.token = AliceToken
    /\ last.req.fault = "commit"
    /\ last.req.body.title = <<"n", "u", "l", "l">>
    /\ last.status = 422
    /\ tasks = {}

(***************************************************************************)
(* Ownership of stored tasks                                               *)
(***************************************************************************)
\* The stored users a task's user_id names
OwnersOf(T, U) == {u \in U : u.id = T.user_id}

\* C17: after every step each stored task has exactly one owner among the
\* stored users; a create answered 201 stored a new task whose owner is the
\* authenticated requester and whose state is pending; and no step changes
\* the owner of a task that was stored before it.
C17_OneOwner ==
    [][/\ \A T \in tasks' : Cardinality(OwnersOf(T, users')) = 1
       /\ \A T \in tasks, T2 \in tasks' : T2.id = T.id => T2.user_id = T.user_id
       /\ (IsRequest({"create_task"}) /\ last'.status = 201)
            => /\ HolderOf(last'.req.token) # {}
               /\ \A U \in HolderOf(last'.req.token) :
                     \E T \in tasks' \ tasks :
                        /\ T.user_id = U.id
                        /\ T.state = FALSE
                        /\ last'.body.id = T.id
                        /\ last'.body.user_id = U.id
                        /\ last'.body.state = pending]_vars

\* C17 witness: the second registered user created a task while a task of
\* the first user was stored, and owns it.
C17_Witness ==
    /\ last.op = "create_task"
    /\ last.status = 201
    /\ Cardinality(tasks) = 2
    /\ \E U \in HolderOf(last.req.token), T, T2 \in tasks :
          /\ U.id = 2
          /\ T.id = last.body.id
          /\ T.user_id = U.id
          /\ T2.user_id # U.id

(***************************************************************************)
(* Token expiry                                                            *)
(***************************************************************************)
\* C18: the expiry in a token made by create_access_token is the issue time
\* plus the ttl passed, for every ttl, zero included, and the issue time plus
\* ACCESS_TOKEN_EXPIRE_MINUTES only when no ttl was passed.
C18_ExpiryIsIssuePlusTtl ==
    last.op = "verify_token" =>
        last.token.claims.exp
          = last.issued_at + (IF last.expires_delta.given THEN last.expires_delta.minutes
                              ELSE ACCESS_TOKEN_EXPIRE_MINUTES)

(***************************************************************************)
(* Store faults and the security recorder                                  *)
(***************************************************************************)
\* The request l, sent while the user table is U, makes the store raise: its
\* fault is at a store call the request gets to
StoreRaises(l, U) ==
    \/ l.op = "login" /\ l.req.fault = "lookup"
    \/ /\ l.op = "register"
       /\ LET v == UserRegister_validate(l.req.body)
          IN  /\ v.ok
              /\ \/ l.req.fault = "query"
                 \/ /\ l.req.fault = "commit"
                    /\ \A u \in U : /\ u.username # v.data.username
                                    /\ u.email # v.data.email

\* The security recorder has a failure among the events of l, with a reason
\* in reasons
RecordedFailure(l, reasons) ==
    \E i \in DOMAIN l.events :
        /\ l.events[i].logger = "security"
        /\ ~l.events[i].success
        /\ l.events[i].failure_reason \in reasons

FailureReasons ==
    {"Invalid credentials", "Username already exists", "Email already exists",
     StoreErrorName}

\* C19: a login or registration refused by its handler (400, 401, 500) has a
\* failure recorded by the security recorder when the response leaves, and
\* when the store raised during the request the recorded reason is "Internal
\* error: " with the exception's class name and the answer is 500.
C19_FailuresRecorded ==
    [][IsRequest({"login", "register"})
          => /\ last'.status \in {400, 401, 500} => RecordedFailure(last', FailureReasons)
             /\ StoreRaises(last', users)
                  => /\ last'.status = 500
                     /\ RecordedFailure(last', {StoreErrorName})]_vars

TokenOps ==
    {"read_users_me", "read_user_tasks", "create_task", "read_tasks", "read_task",
     "update_task", "delete_task"}

\* The store raises in the user lookup of identity resolution, in the user
\* lookup of a login, or in the task query of a handler
LookupOrQueryRaises(l) ==
    \/ l.op = "login" /\ l.req.fault = "lookup"
    \/ /\ l.op \in TokenOps
       /\ HolderOf(l.req.token) # {}
       /\ l.req.fault \in {"lookup", "query"}

\* C20: a request during which the store raises, in the user lookup of
\* identity resolution or of a login or in a task query, is answered 500.
C20_StoreFaultsInternal ==
    [][(last = Idle /\ last' # Idle /\ LookupOrQueryRaises(last'))
          => last'.status = 500]_vars

(***************************************************************************)
(* Requests during which the recorder may raise, sent to a service with    *)
(* one registered user who has logged in                                   *)
(***************************************************************************)
RecorderRequests ==
    [to : {"register"}, body : RegisterBodies, fault : {"none", "commit", RecorderFault}]
      \cup [to : {"login"}, username : LoginUsernames, password : LoginPasswords,
            fault : {"none", "lookup", RecorderFault}]
      \cup [to : {"create_task"}, token : {NoToken, AliceToken}, body : CreateBodies,
            fault : {"none", "commit", RecorderFault}]

InitRecorder ==
    /\ users = {AliceRow}
    /\ tasks = {}
    /\ nextTaskId = 1
    /\ issued = {AliceToken}
    /\ now = 0
    /\ ticks = 0
    /\ scen = -1
    /\ \E req \in RecorderRequests : last = [op |-> "request", req |-> req]

RecordRegister ==
    /\ last.op = "request"
    /\ last.req.to = "register"
    /\ LET r == register_endpoint(users, last.req)
       IN  /\ users' = r.users
           /\ last' = Exchange("register", last.req, r.resp, r.events)
    /\ UNCHANGED <<tasks, nextTaskId, issued, now, ticks, scen>>

RecordLogin ==
    /\ last.op = "request"
    /\ last.req.to = "login"
    /\ LET r == login_user(users, last.req.username, last.req.password, last.req.fault, now)
       IN  /\ issued' = IF r.resp.status = 200
                        THEN issued \cup {r.resp.body.access_token} ELSE issued
           /\ last' = Exchange("login", last.req, r.resp, r.events)
    /\ UNCHANGED <<users, tasks, nextTaskId, now, ticks, scen>>

RecordCreateTask ==
    /\ last.op = "request"
    /\ last.req.to = "create_task"
    /\ LET r == create_task_endpoint(users, tasks, now, last.req, nextTaskId)
       IN  /\ tasks' = r.tasks
           /\ nextTaskId' = IF r.tasks # tasks THEN nextTaskId + 1 ELSE nextTaskId
           /\ last' = Exchange("create_task", last.req, r.resp, r.events)
    /\ UNCHANGED <<users, issued, now, ticks, scen>>

NextRecorder ==
    \/ RecordRegister
    \/ RecordLogin
    \/ RecordCreateTask

SpecRecorder == InitRecorder /\ [][NextRecorder]_vars

\* The status the request req gets when nothing raises
StatusWithoutFault(req) ==
    LET q == [req EXCEPT !.fault = "none"]
    IN  IF q.to = "register" THEN register_endpoint(users, q).resp.status
        ELSE IF q.to = "login"
        THEN login_user(users, q.username, q.password, q.fault, now).resp.status
        ELSE create_task_endpoint(users, tasks, now, q, nextTaskId).resp.status

\* C21: when the recorder raises during a registration, login or task
\* creation that succeeds otherwise, the caller still gets the success
\* status; and no response reports a failure for a request that stored a
\* user or a task.
C21_RecorderFaultHarmless ==
    [][last.op = "request"
          => /\ (last.req.fault = RecorderFault /\ StatusWithoutFault(last.req) \in {200, 201})
                  => last'.status = StatusWithoutFault(last.req)
             /\ (users' # users \/ tasks' # tasks) => last'.status < 400]_vars

(***************************************************************************)
(* Concurrent registrations: each request is a coroutine that awaits the   *)
(* store three times (the username query, the email query, the commit of   *)
(* the insert), and the requests interleave at these awaits.  last holds   *)
(* the requests in flight.                                                 *)
(***************************************************************************)
MaxClients == 2

Clients == 1..MaxClients

\* The bodies that pass UserRegister
ValidRegisterBodies == {b \in RegisterBodies : UserRegister_validate(b).ok}

IntegrityErrorName == "Internal error: IntegrityError"

\* Mutant: the columns of table "users" are not declared unique.
insert_NoUnique(U, row) == [ok |-> TRUE, users |-> U \cup {row}]

\* The INSERT of a row into table "users", whose columns username and email
\* are unique: it raises IntegrityError when a stored row has either
insert(U, row) ==
    IF \E u \in U : u.username = row.username \/ u.email = row.email
    THEN [ok |-> FALSE, users |-> U]
    ELSE [ok |-> TRUE, users |-> U \cup {row}]

\* The request of a client: where its coroutine stands and what it answered
InFlight(data, pc) ==
    [pc |-> pc, data |-> data, status |-> 0, detail |-> "", events |-> <<>>]

Answered(r, status, detail, events) ==
    [pc |-> "done", data |-> r.data, status |-> status, detail |-> detail,
     events |-> events]

InitRace ==
    /\ Quiet
    /\ \E bodies \in [Clients -> ValidRegisterBodies] :
          last = [op |-> "registrations",
                  reqs |-> [c \in Clients |->
                              InFlight(UserRegister_validate(bodies[c]).data, "username")]]

\* select(User).where(User.username == user_data.username)
CheckUsername ==
    \E c \in Clients :
        LET r == last.reqs[c]
        IN  /\ r.pc = "username"
            /\ last' = [last EXCEPT !.reqs[c] =
                  IF \E u \in users : u.username = r.data.username
                  THEN Answered(r, 400, "Username already registered",
                                <<SecurityEvent("user_registration", r.data.username, FALSE,
                                                "Username already exists")>>)
                  ELSE InFlight(r.data, "email")]
            /\ UNCHANGED <<users, tasks, nextTaskId, issued, now, ticks, scen>>

\* select(User).where(User.email == user_data.email)
CheckEmail ==
    \E c \in Clients :
        LET r == last.reqs[c]
        IN  /\ r.pc = "email"
            /\ last' = [last EXCEPT !.reqs[c] =
                  IF \E u \in users : u.email = r.data.email
                  THEN Answered(r, 400, "Email already registered",
                                <<SecurityEvent("user_registration", r.data.username, FALSE,
                                                "Email already exists")>>)
                  ELSE InFlight(r.data, "commit")]
            /\ UNCHANGED <<users, tasks, nextTaskId, issued, now, ticks, scen>>

\* db.add(db_user); await db.commit(), and the answer after it
CommitUser ==
    \E c \in Clients :
        LET r == last.reqs[c]
            db_user == [id |-> Cardinality(users) + 1, username |-> r.data.username,
                        email |-> r.data.email,
                        hashed_password |-> get_password_hash(r.data.password, c)]
            i == insert(users, db_user)
        IN  /\ r.pc = "commit"
            /\ users' = i.users
            /\ last' = [last EXCEPT !.reqs[c] =
                  IF i.ok
                  THEN Answered(r, 201, "",
                                <<SecurityEvent("user_registration", r.data.username, TRUE, ""),
                                  AuditEvent("user_registered", db_user.id, db_user.id)>>)
                  ELSE Answered(r, 500, "Internal server error during registration",
                                <<SecurityEvent("user_registration", r.data.username, FALSE,
                                                IntegrityErrorName)>>)]
            /\ UNCHANGED <<tasks, nextTaskId, issued, now, ticks, scen>>

NextRace ==
    \/ CheckUsername
    \/ CheckEmail
    \/ CommitUser

SpecRace == InitRace /\ [][NextRace]_vars

\* Every registration in flight has been answered
AllAnswered == \A c \in Clients : last.reqs[c].pc = "done"

\* Two requests ask for the same username or the same email
Clash(a, b) == a.username = b.username \/ a.email = b.email

\* C22: when concurrent registrations have all been answered, however their
\* queries and commits interleaved, each was answered 201 or 400; of two that
\* asked for the same username or the same email not both were answered 201;
\* the one answered 201 is stored, and one answered 400 asked for the
\* username or the email of a stored user.
C22_RaceLooksSerial ==
    (last.op = "registrations" /\ AllAnswered) =>
        /\ \A c \in Clients :
              LET r == last.reqs[c]
              IN  /\ r.status \in {201, 400}
                  /\ r.status = 201
                       => \E u \in users : /\ u.username = r.data.username
                                           /\ u.email = r.data.email
                  /\ r.status = 400 => \E u \in users : Clash(u, r.data)
        /\ \A a, b \in Clients :
              (a # b /\ Clash(last.reqs[a].data, last.reqs[b].data))
              => ~(last.reqs[a].status = 201 /\ last.reqs[b].status = 201)

\* C23: whatever registrations are in flight and however they interleave, no
\* two stored users have the same username, no two have the same email, and
\* every stored username is lowercase.
C23_UsersUnique ==
    /\ \A u, w \in users : (u.username = w.username \/ u.email = w.email) => u = w
    /\ \A u \in users : u.username = lower(u.username)

\* C23 witness: two registrations that asked for the same username both got
\* past the queries; one user is stored and the other request was refused
\* by the insert.
C23_Witness ==
    /\ last.op = "registrations"
    /\ AllAnswered
    /\ Cardinality(users) = 1
    /\ \E a, b \in Clients :
          /\ last.reqs[a].status = 201
          /\ last.reqs[b].status = 500
          /\ last.reqs[a].data.username = last.reqs[b].data.username
          /\ \E u \in users : u.username = alice

(***************************************************************************)
(* Registration passwords on their own: Init draws password and            *)
(* confirmation, UserRegister validates them                               *)
(***************************************************************************)
PasswordStems ==
    { Passw0rd, OtherPassword,
      <<"p", "a", "s", "s", "w", "0", "r", "d", "!">>,
      <<"P", "A", "S", "S", "W", "0", "R", "D", "!">>,
      <<"P", "a", "s", "s", "w", "o", "r", "d", "!">>,
      <<"P", "a", "s", "s", "w", "0", "r", "d">>,
      <<"A", "a", "1", "!">>,
      <<"A", "a", "1", "!", "A", "a", "1", "!", "A">>,
      <<"A", "a", "1", "a", "A", "a", "1", "a", "A">>,
      <<"P", "a", "s", "s", "w", "o", "r", "d", "1">>,
      Pad72 \o Pad72, <<>> }

PasswordTails ==
    {<<>>, <<"x">>, <<"1", "2", "3", "4">>, <<"A", "b", "C", "d">>, <<"q", "w", "e", "r">>,
     <<"a", "s", "d", "f">>, <<"Z", "X", "C", "V">>}

Confirmations == {"same", "other", "empty"}

InitPolicy ==
    /\ Quiet
    /\ \E stem \in PasswordStems, tail \in PasswordTails, c \in Confirmations :
          last = [op |-> "register_body",
                  body |-> [username |-> alice, email |-> aliceEmail,
                            password |-> stem \o tail,
                            confirm_password |-> IF c = "same" THEN stem \o tail
                                                 ELSE IF c = "other" THEN OtherPassword
                                                 ELSE <<>>]]

ValidatePolicy ==
    /\ last.op = "register_body"
    /\ last' = [op |-> "validate_register", body |-> last.body,
                result |-> UserRegister_validate(last.body),
                create |-> UserCreate_validate_password(last.body.password)]
    /\ UNCHANGED <<users, tasks, nextTaskId, issued, now, ticks, scen>>

NextPolicy == ValidatePolicy

SpecPolicy == InitPolicy /\ [][NextPolicy]_vars

\* C24: a registration body that UserRegister accepts has a password of 8 to
\* 128 characters with an uppercase letter, a lowercase letter, a digit and
\* a special character, not a weak password, with at least 4 distinct
\* characters and none of the sequential patterns in any letter case, and a
\* confirmation equal to it.
C24_PasswordPolicy ==
    (last.op = "validate_register" /\ last.result.ok)
    => LET v == last.body.password
       IN  /\ Len(v) >= MinPasswordLen
           /\ Len(v) <= MaxPasswordLen
           /\ CharSet(v) \cap UpperChars # {}
           /\ CharSet(v) \cap LowerChars # {}
           /\ CharSet(v) \cap DigitChars # {}
           /\ CharSet(v) \cap SpecialChars # {}
           /\ lower(v) \notin weak_passwords
           /\ Cardinality(CharSet(v)) >= MinPasswordDistinct
           /\ \A seq \in sequences : ~Contains(lower(v), seq)
           /\ last.body.confirm_password = v
           /\ last.result.data.password = v

(***************************************************************************)
(* What the registration validators let through                            *)
(***************************************************************************)
\* C25: a username that UserRegister accepts is, once trimmed, 3 to 50
\* characters of [a-zA-Z0-9_-], starts with a letter or digit, does not end
\* in "_" or "-", is not a reserved word in any letter case, and has at
\* least 2 distinct characters when it is longer than 3.
C25_UsernamePolicy ==
    (last.op = "validate_username" /\ last.cls = "UserRegister" /\ last.result.ok)
    => LET v == strip(last.raw)
       IN  /\ Len(v) >= MinUsernameLen
           /\ Len(v) <= MaxUsernameLen
           /\ \A i \in 1..Len(v) : v[i] \in AlnumChars \cup {"_", "-"}
           /\ v[1] \in AlnumChars
           /\ v[Len(v)] \notin {"_", "-"}
           /\ lower(v) \notin reserved_usernames
           /\ Len(v) > 3 => Cardinality(CharSet(v)) >= 2

(***************************************************************************)
(* Registration emails on their own: Init draws the input, made of a local *)
(* part, a separator and a domain, and UserRegister validates it           *)
(***************************************************************************)
EmailLocals ==
    {<<"a">>, <<"A", ".", "b">>, <<"a", ".", ".", "b">>, <<".", "a">>, <<"a", "+", "1">>, <<>>}

EmailSeparators == {<<"@">>, <<"@", "@">>, <<>>}

EmailDomains ==
    { <<"x", ".", "c", "o", "m">>, <<"X", ".", "C", "o", "m">>,
      <<"-", "x", ".", "c", "o", "m">>, <<"x", "-", ".", "c", "o", "m">>,
      <<"x", "-", "y", ".", "c", "o", "m">>, <<"x", ".", "c", "o", "m", "-">>,
      <<"x", ".", "c">>, <<"x", "c", "o", "m">>, <<"x", ".", ".", "c", "o", "m">>,
      <<"x", ".", "c", "o", ".", "u", "k">>, <<"x", ".", "c", "0", "m">> }

EmailPaddings == {<<>>, <<" ">>}

InitEmail ==
    /\ Quiet
    /\ \E l \in EmailLocals, sep \in EmailSeparators, d \in EmailDomains, pad \in EmailPaddings :
          last = [op |-> "email_input", raw |-> pad \o l \o sep \o d \o pad]

ValidateEmail ==
    /\ last.op = "email_input"
    /\ last' = [op |-> "validate_email", raw |-> last.raw,
                result |-> UserRegister_validate_email(last.raw)]
    /\ UNCHANGED <<users, tasks, nextTaskId, issued, now, ticks, scen>>

NextEmail == ValidateEmail

SpecEmail == InitEmail /\ [][NextEmail]_vars

\* C26: an email that UserRegister accepts is returned trimmed and in
\* lowercase, has one "@" with a local part before it and a domain after it,
\* has no two dots in a row, and its domain has a dot and neither starts nor
\* ends with a hyphen.
C26_EmailPolicy ==
    (last.op = "validate_email" /\ last.result.ok)
    => LET v == last.result.value
           ats == {i \in 1..Len(v) : v[i] = "@"}
       IN  /\ v = lower(strip(last.raw))
           /\ Cardinality(ats) = 1
           /\ LET at == CHOOSE i \in ats : TRUE
                  domain == SubSeq(v, at + 1, Len(v))
              IN  /\ at > 1
                  /\ Len(domain) >= 1
                  /\ ~Contains(v, <<".", ".">>)
                  /\ "." \in CharSet(domain)
                  /\ domain[1] # "-"
                  /\ domain[Len(domain)] # "-"

(***************************************************************************)
(* Task titles on their own: Init draws the title, and the create and the  *)
(* update schema validate a body that has it                               *)
(***************************************************************************)
MaxTitleInputLen == 4

TitleAlphabet == {"a", "b", "!", " "}

LongTitle ==
    BuyMilk \o BuyMilk \o BuyMilk \o BuyMilk \o BuyMilk \o BuyMilk \o BuyMilk \o BuyMilk
      \o BuyMilk \o BuyMilk \o BuyMilk \o BuyMilk \o BuyMilk \o BuyMilk \o BuyMilk
      \o BuyMilk \o BuyMilk \o BuyMilk \o BuyMilk \o BuyMilk \o BuyMilk \o BuyMilk
      \o BuyMilk \o BuyMilk \o BuyMilk

TitleSamples ==
    { BuyMilk, <<" ", "B", "u", "y", "\t">>, <<"a", "a", "a", "a", "a", "a">>,
      <<"a", " ", "a", " ", "a", " ", "a">>, <<"a", "a", "a", "a", "a", "b">>,
      <<"!", "?", " ", "!", "?", "!">>, <<"!", "!", "!", "!", "!", "!">>,
      <<" ", "N", "u", "l", "l", " ">>, <<"n", "u", "l", "l">>, <<"N", "o", "n", "e">>,
      LongTitle, LongTitle \o <<"!">> }

TitleInputs == SeqsUpTo(TitleAlphabet, MaxTitleInputLen) \cup TitleSamples

InitTitle ==
    /\ Quiet
    /\ \E raw \in TitleInputs : last = [op |-> "title_input", raw |-> raw]

ValidateTitle ==
    /\ last.op = "title_input"
    /\ last' = [op |-> "validate_title", raw |-> last.raw,
                create |-> TaskCreate_validate([title |-> last.raw, description |-> Missing]),
                update |-> TaskUpdate_validate([title |-> last.raw, description |-> Missing,
                                                state |-> Missing, extra |-> FALSE])]
    /\ UNCHANGED <<users, tasks, nextTaskId, issued, now, ticks, scen>>

NextTitle == ValidateTitle

SpecTitle == InitTitle /\ [][NextTitle]_vars

\* The properties of an accepted title v
TitlePolicy(v) ==
    /\ Len(v) >= MinTitleLen
    /\ Len(v) <= MaxTitleLen
    /\ CharSet(v) \cap WordChars # {}
    /\ lower(v) \notin string_nulls
    /\ Len(v) > 5 => Cardinality(CharSet(v) \ {" "}) >= 2

\* C27: the create validator and the update validator accept the same titles
\* and return the same value, the title trimmed; an accepted title, trimmed,
\* has 3 to 200 characters, at least one word character, is no reserved
\* word, and has at least 2 distinct characters other than spaces when it is
\* longer than 5; the title "ab" fails on field title in both.
C27_TitlePolicy ==
    last.op = "validate_title" =>
        /\ last.create.ok <=> last.update.ok
        /\ last.create.ok
             => /\ last.create.data.title = strip(last.raw)
                /\ last.update.data.title = strip(last.raw)
                /\ TitlePolicy(strip(last.raw))
        /\ last.raw = <<"a", "b">>
             => /\ ~last.create.ok /\ last.create.errors = {"title"}
                /\ ~last.update.ok /\ last.update.errors = {"title"}

(***************************************************************************)
(* Listings on their own: Init draws the store, from an empty one to one   *)
(* holding more of the requester's tasks than the cap, and the skip and    *)
(* limit of the request, sent by a registered user who has logged in       *)
(***************************************************************************)
BobRow ==
    [id |-> 2, username |-> bob, email |-> bobEmail,
     hashed_password |-> get_password_hash(OtherPassword, 1)]

\* A row of table "tasks" created at time at
StoredTask(id, owner, at) ==
    [id |-> id, title |-> BuyMilk, description |-> None, state |-> FALSE,
     created_at |-> at, updated_at |-> at, user_id |-> owner]

\* n tasks of the first user, one a minute, and then one of the second user
StoreOf(n) ==
    {StoredTask(i, AliceRow.id, i) : i \in 1..n} \cup {StoredTask(n + 1, BobRow.id, n + 1)}

\* Two tasks of the first user created in the same minute, among others
TiedStore ==
    {StoredTask(1, AliceRow.id, 1), StoredTask(2, AliceRow.id, 1),
     StoredTask(3, AliceRow.id, 2), StoredTask(4, BobRow.id, 2)}

\* More tasks than a listing may return
BigStore == MaxLimit + 1

ListingStores == {StoreOf(0), StoreOf(2), StoreOf(BigStore), TiedStore}

\* The time of the listing, after every task was created
ListingTime == BigStore + 2

ListingToken ==
    create_access_token([sub |-> alice], Delta(ACCESS_TOKEN_EXPIRE_MINUTES), ListingTime)

ListingRequests ==
    [token : {NoToken, ListingToken},
     skip : {-1, DefaultSkip, 1, 2, MaxLimit},
     limit : {-1, 0, 1, 2, DefaultLimit, MaxLimit, MaxLimit + 1, 5 * MaxLimit},
     fault : {"none", "query"}]

InitListing ==
    /\ users = {AliceRow, BobRow}
    /\ tasks \in ListingStores
    /\ nextTaskId = BigStore + 2
    /\ issued = {ListingToken}
    /\ now = ListingTime
    /\ ticks = 0
    /\ scen = -1
    /\ \E req \in ListingRequests : last = [op |-> "list_request", req |-> req]

ListTasks ==
    /\ last.op = "list_request"
    /\ \E resp \in read_tasks_endpoint(users, tasks, now, last.req) :
          last' = Exchange("read_tasks", last.req, resp, <<>>)
    /\ UNCHANGED <<users, tasks, nextTaskId, issued, now, ticks, scen>>

NextListing == ListTasks

SpecListing == InitListing /\ [][NextListing]_vars

\* C28: for every requested skip and limit, a listing returns at most 1000
\* tasks and at most limit tasks, each of them a stored task of the
\* requester, from the newest to the oldest; and a request with a limit
\* above 1000 has exactly the answers of the same request with limit 1000.
C28_ListingCapped ==
    [][last.op = "list_request"
         => /\ last'.status = 200
                 => LET items == last'.body.items
                    IN  /\ Len(items) <= MaxLimit
                        /\ Len(items) <= last.req.limit
                        /\ \A i \in DOMAIN items :
                              /\ items[i].user_id = AliceRow.id
                              /\ \E T \in tasks : TaskView(T) = items[i]
                        /\ \A i \in DOMAIN items :
                              i > 1 => items[i - 1].created_at >= items[i].created_at
                        /\ \A i \in DOMAIN items :
                              i > 1 => items[i - 1].id # items[i].id
            /\ last.req.limit > MaxLimit
                 => read_tasks_endpoint(users, tasks, now, last.req)
                      = read_tasks_endpoint(users, tasks, now,
                                            [last.req EXCEPT !.limit = MaxLimit])]_vars

\* C28 witness: a listing that asked for five times the cap, of a store
\* holding more of the requester's tasks than the cap, was answered with
\* exactly 1000 tasks, the newest of the requester first.
C28_Witness ==
    /\ last.op = "read_tasks"
    /\ last.status = 200
    /\ last.req.limit = 5 * MaxLimit
    /\ last.req.skip = DefaultSkip
    /\ Cardinality({T \in tasks : T.user_id = AliceRow.id}) = BigStore
    /\ Len(last.body.items) = MaxLimit
    /\ last.body.items[1].created_at = BigStore
    /\ last.body.items[MaxLimit].created_at = 2

(***************************************************************************)
(* A registration followed by a login with the same credentials: Init      *)
(* draws what the client types, the service starts with no user            *)
(***************************************************************************)
TypedUsernames ==
    {alice, AliceMixed, <<"A", "L", "I", "C", "E">>, <<"a", "l", "i", "c", "e", " ">>,
     bob, <<"B", "o", "b">>, <<" ", "b", "o", "b", " ">>, <<"a", "b">>}

TypedBodies ==
    [username : TypedUsernames,
     email : {aliceEmail, bobEmail},
     password : {Passw0rd, OtherPassword},
     confirm_password : {Passw0rd, OtherPassword}]

InitTyped ==
    /\ Quiet
    /\ \E body \in TypedBodies :
          last = [op |-> "register_request", req |-> [body |-> body, fault |-> "none"]]

RegisterTyped ==
    /\ last.op = "register_request"
    /\ LET r == register_endpoint(users, last.req)
       IN  /\ users' = r.users
           /\ last' = Exchange("register", last.req, r.resp, r.events)
    /\ UNCHANGED <<tasks, nextTaskId, issued, now, ticks, scen>>

\* The client logs in with the username and the password it sent to
\* /auth/register
LoginTyped ==
    /\ last.op = "register"
    /\ LET req == [username |-> last.req.body.username,
                   password |-> last.req.body.password, fault |-> "none"]
           r == login_user(users, req.username, req.password, req.fault, now)
       IN  /\ issued' = IF r.resp.status = 200
                         THEN issued \cup {r.resp.body.access_token}
                         ELSE issued
           /\ last' = Exchange("login", req, r.resp, r.events)
    /\ UNCHANGED <<users, tasks, nextTaskId, now, ticks, scen>>

NextTyped == RegisterTyped \/ LoginTyped

SpecTyped == InitTyped /\ [][NextTyped]_vars

\* The login that follows an accepted registration succeeds and its token
\* names a stored user
LoginSucceeds ==
    /\ last'.status = 200
    /\ last'.body.kind = "token"
    /\ last'.body.access_token.claims.sub = lower(strip(last.req.body.username))
    /\ \E u \in users : u.username = last'.body.access_token.claims.sub

\* C29: after a registration with username U and password P succeeded, a
\* login with U exactly as typed at registration and P succeeds, and the
\* subject of the issued token is the stored lowercase username.
C29_LoginAsTyped ==
    [][(last.op = "register" /\ last.status = 201) => LoginSucceeds]_vars

\* What a failed login lets its client and the security log see: the status
\* code, the detail, the body, and for each recorded event whether it
\* succeeded and why it failed
Outcome(r) ==
    [status |-> r.resp.status, detail |-> r.resp.detail, body |-> r.resp.body,
     recorded |-> [i \in DOMAIN r.events |->
                      [success |-> r.events[i].success,
                       failure_reason |-> r.events[i].failure_reason]]]

\* The credentials and store conditions under which a login now fails
FailingLogins ==
    {c \in [username : LoginUsernames, password : LoginPasswords,
            fault : {"none", "lookup"}] :
        login_user(users, c.username, c.password, c.fault, now).resp.status # 200}

\* C30: a failed login does not reveal whether the username exists: its
\* status code, detail and recorded failure reason are those of every other
\* failing login, be its username unknown or known with a wrong password.
C30_FailedLoginsAlike ==
    [][(IsRequest({"login"}) /\ last'.status # 200)
          => \A c \in FailingLogins :
                Outcome(login_user(users, c.username, c.password, c.fault, now))
                  = [status |-> last'.status, detail |-> last'.detail,
                     body |-> last'.body,
                     recorded |-> [i \in DOMAIN last'.events |->
                                     [success |-> last'.events[i].success,
                                      failure_reason |->
                                          last'.events[i].failure_reason]]]]_vars

\* C30 witness: a login with a username no user has was refused while a
\* login with the username of a stored user and a wrong password would be
\* refused too.
C30_Witness ==
    /\ last.op = "login"
    /\ last.req.fault = "none"
    /\ last.status = 401
    /\ ~\E u \in users : u.username = last.req.username
    /\ \E u \in users, p \in LoginPasswords :
          /\ ~verify_password(p, u.hashed_password)
          /\ [username |-> u.username, password |-> p, fault |-> "none"] \in FailingLogins

====
